---- MODULE Spec2Model ----
(***************************************************************************)
(* python-redis-factory: the URI parser, the configuration utilities, the  *)
(* three client builders and the get_redis_client facade.                  *)
(*                                                                         *)
(* A Python str is a sequence of one-character strings, so that split,     *)
(* partition, strip, lower and int() are computed character by character.  *)
(* Python None is NONE for an Optional[str] field and NONE_LIST for an     *)
(* Optional[list[str]] field: neither is a str or a list of str.           *)
(* Floats (the two timeouts) are integers.                                 *)
(* Inputs carry only ASCII letters, digits and : / @ , + - ? and space: no *)
(* brackets (IPv6 literals), no '%', '#', '_', control or non-ASCII        *)
(* characters.                                                             *)
(***************************************************************************)
EXTENDS Integers, Sequences, FiniteSets, TLC

VARIABLES op, uri, written, args, ret, calls, config, depth, factory

vars == <<op, uri, written, args, ret, calls, config, depth, factory>>

----------------------------------------------------------------------------
(* x \in {e} binds x to the value of e, so that e is computed once; The    *)
(* takes the value back out of the singleton.                              *)

The(S) == CHOOSE x \in S : TRUE

----------------------------------------------------------------------------
(* Python str primitives                                                   *)

NONE == <<"None">>

NONE_LIST == << <<"None">> >>

UpperChars == <<"A","B","C","D","E","F","G","H","I","J","K","L","M",
                "N","O","P","Q","R","S","T","U","V","W","X","Y","Z">>

LowerChars == <<"a","b","c","d","e","f","g","h","i","j","k","l","m",
                "n","o","p","q","r","s","t","u","v","w","x","y","z">>

DigitChars == <<"0","1","2","3","4","5","6","7","8","9">>

Letters == {UpperChars[i] : i \in 1..26} \cup {LowerChars[i] : i \in 1..26}

Digits == {DigitChars[i] : i \in 1..10}

IsAlpha(c) == c \in Letters

IsDigitChar(c) == c \in Digits

DigitVal(c) == (CHOOSE i \in 1..10 : DigitChars[i] = c) - 1

LowerChar(c) ==
    IF \E i \in 1..26 : UpperChars[i] = c
    THEN LowerChars[CHOOSE i \in 1..26 : UpperChars[i] = c]
    ELSE c

\* str.lower()
lower(str) == The({[i \in 1..Len(s) |-> LowerChar(s[i])] : s \in {str}})

\* c in str
Contains(str, c) == \E s \in {str} : \E i \in 1..Len(s) : s[i] = c

\* str.find(c) + 1: the first position of c in str, 0 when c is not in str
find(str, c) ==
    The({IF \E i \in 1..Len(s) : s[i] = c
         THEN CHOOSE i \in 1..Len(s) : s[i] = c /\ \A j \in 1..(i - 1) : s[j] # c
         ELSE 0 : s \in {str}})

\* str.rfind(c) + 1
rfind(str, c) ==
    The({IF \E i \in 1..Len(s) : s[i] = c
         THEN CHOOSE i \in 1..Len(s) :
                  s[i] = c /\ \A j \in (i + 1)..Len(s) : s[j] # c
         ELSE 0 : s \in {str}})

\* str[:n]
Take(str, n) == SubSeq(str, 1, n)

\* str[n:]
Drop(str, n) == The({SubSeq(s, n + 1, Len(s)) : s \in {str}})

\* the split of s at position i, 0 for no split: <<before, found, after>>
SplitAt(s, i) ==
    IF i = 0 THEN <<s, FALSE, <<>>>>
    ELSE <<SubSeq(s, 1, i - 1), TRUE, SubSeq(s, i + 1, Len(s))>>

\* str.partition(c): <<before, found, after>>
partition(str, c) ==
    The({SplitAt(s, i) : s \in {str}, i \in {find(str, c)}})

\* str.rpartition(c): <<before, found, after>>; all of str is after when c
\* is not found
rpartition(str, c) ==
    The({IF i = 0 THEN <<<<>>, FALSE, s>> ELSE SplitAt(s, i) :
             s \in {str}, i \in {rfind(str, c)}})

\* str.split(c): the list of the fragments between the occurrences of c
RECURSIVE split(_, _)
split(str, c) ==
    The({IF p[2] THEN <<p[1]>> \o split(p[3], c) ELSE <<p[1]>> :
             p \in {partition(str, c)}})

\* str.split(c, 1)
split1(str, c) ==
    The({IF p[2] THEN <<p[1], p[3]>> ELSE <<p[1]>> : p \in {partition(str, c)}})

\* str.rsplit(c, 1)
rsplit1(str, c) ==
    The({IF p[2] THEN <<p[1], p[3]>> ELSE <<p[3]>> : p \in {rpartition(str, c)}})

\* str.lstrip(): the leading spaces removed
lstrip(str) ==
    The({IF \E i \in 1..Len(s) : s[i] # " "
         THEN SubSeq(s, CHOOSE i \in 1..Len(s) :
                            s[i] # " " /\ \A j \in 1..(i - 1) : s[j] = " ",
                     Len(s))
         ELSE <<>> : s \in {str}})

\* str.rstrip(): the trailing spaces removed
rstrip(str) ==
    The({IF \E i \in 1..Len(s) : s[i] # " "
         THEN SubSeq(s, 1, CHOOSE i \in 1..Len(s) :
                               s[i] # " " /\ \A j \in (i + 1)..Len(s) : s[j] = " ")
         ELSE <<>> : s \in {str}})

\* str.strip()
strip(str) == rstrip(lstrip(str))

\* str.isdigit() (and isascii(): the inputs are ASCII)
isdigit(str) ==
    \E s \in {str} : s # <<>> /\ \A i \in 1..Len(s) : IsDigitChar(s[i])

\* the value of a string of digits, most significant first
RECURSIVE DigitsValue(_, _)
DigitsValue(s, n) ==
    IF n = 0 THEN 0 ELSE 10 * DigitsValue(s, n - 1) + DigitVal(s[n])

\* int(str): surrounding whitespace stripped, an optional sign, then
\* digits; anything else raises ValueError (ok = FALSE)
int(str) ==
    The({The({IF isdigit(d)
              THEN [ok |-> TRUE,
                    val |-> IF t[1] = "-" THEN 0 - DigitsValue(d, Len(d))
                            ELSE DigitsValue(d, Len(d))]
              ELSE [ok |-> FALSE, val |-> 0] :
                  d \in {IF t # <<>> /\ t[1] \in {"+", "-"} THEN Tail(t) ELSE t}})
         : t \in {strip(str)}})

\* the text of a str, for error messages
RECURSIVE StrFrom(_, _)
StrFrom(s, i) == IF i > Len(s) THEN "" ELSE s[i] \o StrFrom(s, i + 1)

Str(str) == The({StrFrom(s, 1) : s \in {str}})

\* sep.join(list)
RECURSIVE JoinFrom(_, _, _)
JoinFrom(list, sep, i) ==
    IF i > Len(list) THEN <<>>
    ELSE IF i = Len(list) THEN list[i]
    ELSE list[i] \o sep \o JoinFrom(list, sep, i + 1)

join(list, sep) == The({JoinFrom(l, sep, 1) : l \in {list}})

----------------------------------------------------------------------------
(* Outcomes of a call: a returned value or a raised exception              *)

NoValue == [none |-> TRUE]

Return(v) == [ok |-> TRUE, val |-> v, exc |-> "", msg |-> ""]

Raise(type, message) == [ok |-> FALSE, val |-> NoValue, exc |-> type, msg |-> message]

----------------------------------------------------------------------------
(* urllib.parse.urlparse, as uri_parser.py uses it                         *)

SchemeChars == Letters \cup Digits \cup {"+", "-", "."}

\* _splitnetloc: the position where the netloc that starts at position 3
\* ends, at the first of / ? # or at the end of the string
NetlocEnd(s) ==
    IF \E i \in 3..Len(s) : s[i] \in {"/", "?", "#"}
    THEN CHOOSE i \in 3..Len(s) :
             s[i] \in {"/", "?", "#"}
             /\ \A j \in 3..(i - 1) : s[j] \notin {"/", "?", "#"}
    ELSE Len(s) + 1

\* the scheme test of urlsplit: 0, or the position of the ":" that ends a
\* scheme (a letter, then letters, digits, + - .)
SchemeEnd(s) ==
    The({IF i > 1 /\ IsAlpha(s[1]) /\ \A j \in 1..(i - 1) : s[j] \in SchemeChars
         THEN i ELSE 0 : i \in {find(s, ":")}})

\* the rest of urlsplit, from the string after the scheme: <<netloc, path>>,
\* the path cut at the first # and then at the first ?
NetlocAndPath(s) ==
    The({The({<<IF hasNetloc THEN SubSeq(s, 3, e - 1) ELSE <<>>,
                partition(partition(IF hasNetloc THEN Drop(s, e - 1) ELSE s,
                                    "#")[1], "?")[1]>> :
                  e \in {IF hasNetloc THEN NetlocEnd(s) ELSE 0}})
         : hasNetloc \in {Len(s) >= 2 /\ s[1] = "/" /\ s[2] = "/"}})

\* urlparse(uri): scheme, netloc and path (params, query and fragment are
\* never read by the parser)
urlparse(u) ==
    The({The({The({[scheme |-> lower(Take(s, IF i = 0 THEN 0 ELSE i - 1)),
                    netloc |-> np[1], path |-> np[2]] :
                       np \in {NetlocAndPath(Drop(s, i))}})
              : i \in {SchemeEnd(s)}})
         : s \in {lstrip(u)}})

\* ParseResult.password: what follows the first ":" of the userinfo, the
\* userinfo being what precedes the LAST "@"; None without "@" or ":"
urlparse_password(parsed) ==
    The({IF r[2]
         THEN The({IF p[2] THEN p[3] ELSE NONE : p \in {partition(r[1], ":")}})
         ELSE NONE : r \in {rpartition(parsed.netloc, "@")}})

\* ParseResult._hostinfo for a netloc without brackets: <<hostname, port>>,
\* split at the first ":" after the LAST "@"; port None when empty
urlparse_hostinfo(parsed) ==
    The({<<p[1], IF p[3] = <<>> THEN NONE ELSE p[3]>> :
             p \in {partition(rpartition(parsed.netloc, "@")[3], ":")}})

\* ParseResult.hostname: lowercased, None when empty
urlparse_hostname(parsed) ==
    The({IF h = <<>> THEN NONE ELSE lower(h) : h \in {urlparse_hostinfo(parsed)[1]}})

\* ParseResult.port: None (none = TRUE), an integer in 0..65535, or
\* ValueError (ok = FALSE)
urlparse_port(parsed) ==
    The({IF p = NONE THEN [ok |-> TRUE, none |-> TRUE, val |-> 0]
         ELSE IF ~isdigit(p) THEN [ok |-> FALSE, none |-> FALSE, val |-> 0]
         ELSE The({IF v > 65535 THEN [ok |-> FALSE, none |-> FALSE, val |-> 0]
                   ELSE [ok |-> TRUE, none |-> FALSE, val |-> v] :
                       v \in {DigitsValue(p, Len(p))}})
         : p \in {urlparse_hostinfo(parsed)[2]}})

----------------------------------------------------------------------------
(* interfaces.py: RedisConnectionMode and RedisConnectionConfig            *)

STANDALONE == "standalone"

SENTINEL == "sentinel"

CLUSTER == "cluster"

RedisConnectionMode == {STANDALONE, SENTINEL, CLUSTER}

FieldNames ==
    {"host", "port", "password", "db", "mode", "sentinel_hosts",
     "sentinel_password", "service_name", "cluster_nodes", "max_connections",
     "socket_timeout", "socket_connect_timeout", "ssl", "ssl_cert_reqs",
     "ssl_ca_certs"}

\* the fields typed Optional[...]: the only ones a caller can leave None
\* and still pass __post_init__
ListFields == {"sentinel_hosts", "cluster_nodes"}

\* v is None, for the value v of field f
IsNone(f, v) ==
    IF f \in ListFields THEN v = NONE_LIST
    ELSE IF f \in {"password", "sentinel_password", "service_name",
                   "ssl_cert_reqs", "ssl_ca_certs"} THEN v = NONE
    ELSE FALSE

\* the dataclass field defaults (host has none: it is required)
FieldDefaults ==
    [port |-> 6379, password |-> NONE, db |-> 0, mode |-> STANDALONE,
     sentinel_hosts |-> NONE_LIST, sentinel_password |-> NONE,
     service_name |-> NONE, cluster_nodes |-> NONE_LIST,
     max_connections |-> 10, socket_timeout |-> 5,
     socket_connect_timeout |-> 5, ssl |-> FALSE, ssl_cert_reqs |-> NONE,
     ssl_ca_certs |-> NONE]

\* __post_init__ without its test of db
__post_init___db_unchecked(self) ==
    IF self.port < 1 \/ self.port > 65535
    THEN "Port must be between 1 and 65535"
    ELSE IF self.max_connections < 1
    THEN "Max connections must be at least 1"
    ELSE IF self.socket_timeout < 0
    THEN "Socket timeout must be non-negative"
    ELSE IF self.socket_connect_timeout < 0
    THEN "Socket connect timeout must be non-negative"
    ELSE ""

\* RedisConnectionConfig.__post_init__: the error it raises, "" when none
__post_init__(self) ==
    IF self.port < 1 \/ self.port > 65535
    THEN "Port must be between 1 and 65535"
    ELSE IF self.db < 0
    THEN "Database number must be non-negative"
    ELSE IF self.max_connections < 1
    THEN "Max connections must be at least 1"
    ELSE IF self.socket_timeout < 0
    THEN "Socket timeout must be non-negative"
    ELSE IF self.socket_connect_timeout < 0
    THEN "Socket connect timeout must be non-negative"
    ELSE ""

\* RedisConnectionConfig(**kw): the generated __init__ fills the defaults,
\* then __post_init__ validates
RedisConnectionConfig(kw) ==
    The({IF __post_init__(self) = "" THEN Return(self)
         ELSE Raise("ValueError", __post_init__(self)) :
             self \in {[f \in FieldNames |->
                           IF f \in DOMAIN kw THEN kw[f] ELSE FieldDefaults[f]]}})

----------------------------------------------------------------------------
(* uri_parser.py                                                           *)

\* _determine_connection_mode with the sentinel scheme falling into the
\* cluster branch
_determine_connection_mode_sentinel_as_cluster(scheme) ==
    IF scheme \in {<<"r","e","d","i","s">>, <<"r","e","d","i","s","s">>}
    THEN Return(STANDALONE)
    ELSE IF scheme \in {<<"r","e","d","i","s","+","s","e","n","t","i","n","e","l">>, <<"r","e","d","i","s","+","c","l","u","s","t","e","r">>}
    THEN Return(CLUSTER)
    ELSE Raise("ValueError", "Invalid Redis URI scheme: " \o Str(scheme))

_determine_connection_mode(scheme) ==
    IF scheme \in {<<"r","e","d","i","s">>, <<"r","e","d","i","s","s">>}
    THEN Return(STANDALONE)
    ELSE IF scheme = <<"r","e","d","i","s","+","s","e","n","t","i","n","e","l">>
    THEN Return(SENTINEL)
    ELSE IF scheme = <<"r","e","d","i","s","+","c","l","u","s","t","e","r">>
    THEN Return(CLUSTER)
    ELSE Raise("ValueError", "Invalid Redis URI scheme: " \o Str(scheme))

\* the list comprehension [host.strip() for host in ... if host.strip()]
StripNonBlank(frags) ==
    The({[i \in 1..Len(kept) |-> kept[i]] :
             kept \in {SelectSeq([i \in 1..Len(frags) |-> strip(frags[i])],
                                 LAMBDA h : h # <<>>)}})

_parse_host_list(netloc) ==
    IF netloc = <<>> THEN <<>>
    ELSE The({StripNonBlank(frags) :
                  frags \in {split(IF Contains(netloc, "@")
                                   THEN split1(netloc, "@")[2] ELSE netloc,
                                   ",")}})

_parse_host_port(host_port) ==
    IF Contains(host_port, ":")
    THEN The({The({IF ~port.ok \/ port.val < 1 \/ port.val > 65535
                   THEN Raise("ValueError", "Invalid port number")
                   ELSE Return([host |-> hp[1], port |-> port.val]) :
                       port \in {int(hp[2])}})
              : hp \in {rsplit1(host_port, ":")}})
    ELSE Return([host |-> host_port, port |-> 6379])

\* PasswordOf that ends the userinfo at the FIRST "@" of the netloc
PasswordOf_up_to_first_at(parsed) ==
    The({IF r[2]
         THEN The({IF p[2] /\ p[3] # <<>> THEN p[3] ELSE NONE :
                       p \in {partition(r[1], ":")}})
         ELSE NONE : r \in {partition(parsed.netloc, "@")}})

\* password = parsed.password if parsed.password else None
PasswordOf(parsed) ==
    The({IF pw # NONE /\ pw # <<>> THEN pw ELSE NONE :
             pw \in {urlparse_password(parsed)}})

\* DbOf that never reads the path
DbOf_ignoring_path(path) == [ok |-> TRUE, val |-> 0]

\* the database number of a standalone URI: 0 for an empty path or "/",
\* else int(path[1:]), ValueError (ok = FALSE) when that fails or is < 0
DbOf(path) ==
    IF Len(path) > 1
    THEN The({IF ~db.ok \/ db.val < 0 THEN [ok |-> FALSE, val |-> 0] ELSE db :
                  db \in {int(Tail(path))}})
    ELSE [ok |-> TRUE, val |-> 0]

\* _parse_standalone_uri that reads the database number before the port
_parse_standalone_uri_db_first(parsed) ==
    The({IF ~db.ok THEN Raise("ValueError", "Invalid database number")
         ELSE IF ~port.ok THEN Raise("ValueError", "Invalid port number")
         ELSE RedisConnectionConfig(
                  [host |-> IF hostname = NONE
                            THEN <<"l","o","c","a","l","h","o","s","t">>
                            ELSE hostname,
                   port |-> IF port.none \/ port.val = 0 THEN 6379 ELSE port.val,
                   password |-> PasswordOf(parsed),
                   db |-> db.val,
                   mode |-> STANDALONE,
                   ssl |-> (parsed.scheme = <<"r","e","d","i","s","s">>)]) :
             hostname \in {urlparse_hostname(parsed)},
             port \in {urlparse_port(parsed)},
             db \in {DbOf(parsed.path)}})

_parse_standalone_uri(parsed) ==
    The({IF ~port.ok THEN Raise("ValueError", "Invalid port number")
         ELSE IF ~db.ok THEN Raise("ValueError", "Invalid database number")
         ELSE RedisConnectionConfig(
                  [host |-> IF hostname = NONE
                            THEN <<"l","o","c","a","l","h","o","s","t">>
                            ELSE hostname,
                   port |-> IF port.none \/ port.val = 0 THEN 6379 ELSE port.val,
                   password |-> PasswordOf(parsed),
                   db |-> db.val,
                   mode |-> STANDALONE,
                   ssl |-> (parsed.scheme = <<"r","e","d","i","s","s">>)]) :
             hostname \in {urlparse_hostname(parsed)},
             port \in {urlparse_port(parsed)},
             db \in {DbOf(parsed.path)}})

\* _parse_sentinel_uri that takes the path "/" for a service name
_parse_sentinel_uri_slash_is_a_name(parsed) ==
    The({IF sentinel_hosts = <<>>
         THEN Raise("ValueError",
                    "Sentinel URI must include at least one sentinel host")
         ELSE IF Len(parsed.path) < 1
         THEN Raise("ValueError", "Sentinel URI must include service name")
         ELSE The({IF ~first.ok THEN first
                   ELSE RedisConnectionConfig(
                            [host |-> first.val.host, port |-> first.val.port,
                             password |-> password, mode |-> SENTINEL,
                             sentinel_hosts |-> sentinel_hosts,
                             sentinel_password |-> password,
                             service_name |-> Tail(parsed.path)]) :
                       first \in {_parse_host_port(sentinel_hosts[1])},
                       password \in {PasswordOf(parsed)}})
         : sentinel_hosts \in {_parse_host_list(parsed.netloc)}})

_parse_sentinel_uri(parsed) ==
    The({IF sentinel_hosts = <<>>
         THEN Raise("ValueError",
                    "Sentinel URI must include at least one sentinel host")
         ELSE IF Len(parsed.path) <= 1
         THEN Raise("ValueError", "Sentinel URI must include service name")
         ELSE The({IF ~first.ok THEN first
                   ELSE RedisConnectionConfig(
                            [host |-> first.val.host, port |-> first.val.port,
                             password |-> password, mode |-> SENTINEL,
                             sentinel_hosts |-> sentinel_hosts,
                             sentinel_password |-> password,
                             service_name |-> Tail(parsed.path)]) :
                       first \in {_parse_host_port(sentinel_hosts[1])},
                       password \in {PasswordOf(parsed)}})
         : sentinel_hosts \in {_parse_host_list(parsed.netloc)}})

_parse_cluster_uri(parsed) ==
    The({IF cluster_nodes = <<>>
         THEN Raise("ValueError", "Cluster URI must include at least one node")
         ELSE The({IF ~first.ok THEN first
                   ELSE RedisConnectionConfig(
                            [host |-> first.val.host, port |-> first.val.port,
                             password |-> PasswordOf(parsed), mode |-> CLUSTER,
                             cluster_nodes |-> cluster_nodes]) :
                       first \in {_parse_host_port(cluster_nodes[1])}})
         : cluster_nodes \in {_parse_host_list(parsed.netloc)}})

parse_redis_uri(u) ==
    IF u = <<>> THEN Raise("ValueError", "URI cannot be empty")
    ELSE The({IF parsed.scheme = <<>>
              THEN Raise("ValueError", "Invalid Redis URI format")
              ELSE The({IF ~mode.ok THEN mode
                        ELSE IF mode.val = STANDALONE
                        THEN IF parsed.netloc = <<>>
                             THEN Raise("ValueError", "Invalid Redis URI format")
                             ELSE _parse_standalone_uri(parsed)
                        ELSE IF mode.val = SENTINEL
                        THEN _parse_sentinel_uri(parsed)
                        ELSE _parse_cluster_uri(parsed) :
                            mode \in {_determine_connection_mode(parsed.scheme)}})
              : parsed \in {urlparse(u)}})

----------------------------------------------------------------------------
(* config.py                                                               *)

get_default_config(mode) ==
    The({IF mode = SENTINEL
         THEN [c EXCEPT !.sentinel_hosts = NONE_LIST,
                        !.sentinel_password = NONE, !.service_name = NONE]
         ELSE IF mode = CLUSTER
         THEN [c EXCEPT !.cluster_nodes = NONE_LIST]
         ELSE c :
             c \in {RedisConnectionConfig(
                        [host |-> <<"l","o","c","a","l","h","o","s","t">>,
                         port |-> 6379, password |-> NONE, db |-> 0,
                         mode |-> mode, max_connections |-> 10,
                         socket_timeout |-> 5, socket_connect_timeout |-> 5,
                         ssl |-> FALSE, ssl_cert_reqs |-> NONE,
                         ssl_ca_certs |-> NONE]).val}})

\* validate_config that tests the sentinel fields with "is None" only
validate_config_unset_only(c) ==
    IF c.host = <<>> \/ strip(c.host) = <<>>
    THEN "Host cannot be empty"
    ELSE IF c.mode = SENTINEL /\ c.service_name = NONE
    THEN "Service name is required for Sentinel mode"
    ELSE IF c.mode = SENTINEL /\ c.sentinel_hosts = NONE_LIST
    THEN "Sentinel hosts are required for Sentinel mode"
    ELSE IF c.mode = CLUSTER
            /\ (c.cluster_nodes = NONE_LIST \/ c.cluster_nodes = <<>>)
    THEN "Cluster nodes are required for Cluster mode"
    ELSE IF c.ssl /\ c.ssl_cert_reqs = NONE
    THEN "SSL certificate requirements must be specified when SSL is enabled"
    ELSE ""

\* validate_config: the error it raises, "" when it returns
validate_config(c) ==
    IF c.host = <<>> \/ strip(c.host) = <<>>
    THEN "Host cannot be empty"
    ELSE IF c.mode = SENTINEL /\ (c.service_name = NONE \/ c.service_name = <<>>)
    THEN "Service name is required for Sentinel mode"
    ELSE IF c.mode = SENTINEL
            /\ (c.sentinel_hosts = NONE_LIST \/ c.sentinel_hosts = <<>>)
    THEN "Sentinel hosts are required for Sentinel mode"
    ELSE IF c.mode = CLUSTER
            /\ (c.cluster_nodes = NONE_LIST \/ c.cluster_nodes = <<>>)
    THEN "Cluster nodes are required for Cluster mode"
    ELSE IF c.ssl /\ c.ssl_cert_reqs = NONE
    THEN "SSL certificate requirements must be specified when SSL is enabled"
    ELSE ""

\* merge_configs that takes a field of override at its default for unset
merge_configs_default_is_unset(base, override) ==
    RedisConnectionConfig(
        [k \in FieldNames |->
            IF k = "host" \/ override[k] # FieldDefaults[k]
            THEN override[k] ELSE base[k]])

\* merge_configs that copies every field of override, None or not
merge_configs_override_always(base, override) ==
    RedisConnectionConfig([k \in FieldNames |-> override[k]])

\* merge_configs with base taking precedence
merge_configs_base_wins(base, override) ==
    RedisConnectionConfig(
        [k \in FieldNames |->
            IF ~IsNone(k, base[k]) THEN base[k] ELSE override[k]])

\* merge_configs: dataclasses.replace(base, **overrides) runs __init__ and
\* __post_init__ on the merged fields
merge_configs(base, override) ==
    RedisConnectionConfig(
        [k \in FieldNames |->
            IF ~IsNone(k, override[k]) THEN override[k] ELSE base[k]])

\* overrides.get(k, default)
Get(overrides, k, default) ==
    IF k \in DOMAIN overrides THEN overrides[k] ELSE default

\* create_config_from_uri without its call of validate_config
create_config_from_uri_unvalidated(u, overrides) ==
    The({IF ~parsed.ok THEN parsed
         ELSE IF DOMAIN overrides # {}
         THEN RedisConnectionConfig(
                  [k \in FieldNames |-> Get(overrides, k, parsed.val[k])])
         ELSE parsed : parsed \in {parse_redis_uri(u)}})

\* create_config_from_uri(uri, **overrides); overrides is a dict: a function
\* from keyword names to values
create_config_from_uri(u, overrides) ==
    The({IF ~parsed.ok THEN parsed
         ELSE The({IF ~built.ok THEN built
                   ELSE The({IF err # "" THEN Raise("ValueError", err)
                             ELSE built : err \in {validate_config(built.val)}})
                   : built \in {IF DOMAIN overrides # {}
                                THEN RedisConnectionConfig(
                                         [k \in FieldNames |->
                                             Get(overrides, k, parsed.val[k])])
                                ELSE parsed}})
         : parsed \in {parse_redis_uri(u)}})

----------------------------------------------------------------------------
(* The external client library (redis-py), seen from the builders: a       *)
(* constructor or master_for either returns an opaque object, identified   *)
(* here by the call that made it, or raises.  Which of the two happens is  *)
(* the library's choice, ext.                                              *)

ExtOutcomes ==
    {[ctor |-> "ok", master_for |-> "ok"],
     [ctor |-> "ok", master_for |-> "raise"],
     [ctor |-> "raise", master_for |-> "ok"]}

ExtError == Raise("ConnectionError", "Connection refused")

\* a call fn(*pos, **kw) on the external library
Call(fn, pos, kw) == [fn |-> fn, pos |-> pos, kw |-> kw]

\* the object the call returns
Object(call) == [made_by |-> call]

Truthy(v) == v # NONE /\ v # <<>>

----------------------------------------------------------------------------
(* clients/standalone.py                                                   *)

StandaloneRedisClient(cfg, async_client) ==
    IF cfg.mode # STANDALONE
    THEN Raise("ValueError", "Configuration must be for STANDALONE mode")
    ELSE Return([config |-> cfg, async_client |-> async_client])

StandaloneRedisClient_connection_params(cfg) ==
    The({[k \in keys |-> IF k = "decode_responses" THEN TRUE ELSE cfg[k]] : keys \in
               {{"host", "port", "decode_responses", "password", "db", "ssl"}
                \cup (IF cfg.max_connections # 0 THEN {"max_connections"} ELSE {})
                \cup (IF cfg.socket_timeout # 0 THEN {"socket_timeout"} ELSE {})
                \cup (IF cfg.socket_connect_timeout # 0
                      THEN {"socket_connect_timeout"} ELSE {})
                \cup (IF cfg.ssl /\ Truthy(cfg.ssl_cert_reqs)
                      THEN {"ssl_cert_reqs"} ELSE {})
                \cup (IF cfg.ssl /\ Truthy(cfg.ssl_ca_certs)
                      THEN {"ssl_ca_certs"} ELSE {})}})

\* create_connection that builds the synchronous client whatever
\* async_client is
StandaloneRedisClient_create_connection_sync_only(self, ext) ==
    The({[calls |-> <<call>>,
          ret |-> IF ext.ctor = "ok" THEN Return(Object(call)) ELSE ExtError] :
             call \in {Call("redis.Redis", <<>>,
                            StandaloneRedisClient_connection_params(self.config))}})

StandaloneRedisClient_create_connection(self, ext) ==
    The({[calls |-> <<call>>,
          ret |-> IF ext.ctor = "ok" THEN Return(Object(call)) ELSE ExtError] :
             call \in {Call(IF self.async_client THEN "redis.asyncio.Redis"
                            ELSE "redis.Redis",
                            <<>>,
                            StandaloneRedisClient_connection_params(self.config))}})

----------------------------------------------------------------------------
(* clients/sentinel.py                                                     *)

\* SentinelRedisClient.__init__ without its test of service_name
SentinelRedisClient_any_service_name(cfg, async_client) ==
    IF cfg.mode # SENTINEL
    THEN Raise("ValueError", "Configuration must be for SENTINEL mode")
    ELSE IF cfg.sentinel_hosts = NONE_LIST \/ cfg.sentinel_hosts = <<>>
    THEN Raise("ValueError", "Sentinel hosts are required for Sentinel mode")
    ELSE Return([config |-> cfg, async_client |-> async_client])

SentinelRedisClient(cfg, async_client) ==
    IF cfg.mode # SENTINEL
    THEN Raise("ValueError", "Configuration must be for SENTINEL mode")
    ELSE IF cfg.sentinel_hosts = NONE_LIST \/ cfg.sentinel_hosts = <<>>
    THEN Raise("ValueError", "Sentinel hosts are required for Sentinel mode")
    ELSE IF ~Truthy(cfg.service_name)
    THEN Raise("ValueError", "Service name is required for Sentinel mode")
    ELSE Return([config |-> cfg, async_client |-> async_client])

\* one "host[:port]" string to a (host, port) pair: split on the FIRST
\* colon, int() of the rest (ValueError when it is no integer), the
\* default port when there is no colon
HostPortPair(host_str, default_port) ==
    IF Contains(host_str, ":")
    THEN The({The({IF port.ok THEN Return([host |-> hp[1], port |-> port.val])
                   ELSE Raise("ValueError",
                              "invalid literal for int() with base 10") :
                       port \in {int(hp[2])}})
              : hp \in {split1(host_str, ":")}})
    ELSE Return([host |-> host_str, port |-> default_port])

\* the loop with every pair put in front of the pairs made before it
HostPortPairs_prepending(list, default_port) ==
    The({IF \E i \in 1..Len(list) : ~each[i].ok
         THEN each[CHOOSE i \in 1..Len(list) :
                       ~each[i].ok /\ \A j \in 1..(i - 1) : each[j].ok]
         ELSE Return([i \in 1..Len(list) |-> each[Len(list) + 1 - i].val]) :
             each \in {[i \in 1..Len(list) |->
                           HostPortPair(list[i], default_port)]}})

\* the loop of _parse_sentinel_hosts / _parse_cluster_nodes: the pairs in
\* order, or the first ValueError
HostPortPairs(list, default_port) ==
    The({IF \E i \in 1..Len(list) : ~each[i].ok
         THEN each[CHOOSE i \in 1..Len(list) :
                       ~each[i].ok /\ \A j \in 1..(i - 1) : each[j].ok]
         ELSE Return([i \in 1..Len(list) |-> each[i].val]) :
             each \in {[i \in 1..Len(list) |->
                           HostPortPair(list[i], default_port)]}})

SentinelRedisClient__parse_sentinel_hosts(self) ==
    HostPortPairs(self.config.sentinel_hosts, 26379)

\* connection_params that also holds db
SentinelRedisClient_connection_params_with_db(cfg) ==
    The({[k \in keys |-> IF k = "decode_responses" THEN TRUE ELSE cfg[k]] : keys \in
               {{"password", "db", "max_connections", "socket_timeout",
                 "socket_connect_timeout", "decode_responses", "ssl"}
                \cup (IF cfg.ssl /\ Truthy(cfg.ssl_cert_reqs)
                      THEN {"ssl_cert_reqs"} ELSE {})
                \cup (IF cfg.ssl /\ Truthy(cfg.ssl_ca_certs)
                      THEN {"ssl_ca_certs"} ELSE {})}})

SentinelRedisClient_connection_params(cfg) ==
    The({[k \in keys |-> IF k = "decode_responses" THEN TRUE ELSE cfg[k]] : keys \in
               {{"password", "max_connections", "socket_timeout",
                 "socket_connect_timeout", "decode_responses", "ssl"}
                \cup (IF cfg.ssl /\ Truthy(cfg.ssl_cert_reqs)
                      THEN {"ssl_cert_reqs"} ELSE {})
                \cup (IF cfg.ssl /\ Truthy(cfg.ssl_ca_certs)
                      THEN {"ssl_ca_certs"} ELSE {})}})

\* sentinel.master_for(service_name), on the object the constructor returned
MasterFor(sentinel, service_name) ==
    [fn |-> "master_for", on |-> sentinel, pos |-> <<service_name>>]

SentinelRedisClient_create_connection(self, ext) ==
    The({IF ~hosts.ok THEN [calls |-> <<>>, ret |-> hosts]
         ELSE The({IF ext.ctor # "ok" THEN [calls |-> <<ctor>>, ret |-> ExtError]
                   ELSE The({[calls |-> <<ctor, master_for>>,
                              ret |-> IF ext.master_for = "ok"
                                      THEN Return(Object(master_for))
                                      ELSE ExtError] :
                                 master_for \in
                                     {MasterFor(Object(ctor),
                                                self.config.service_name)}})
                   : ctor \in {Call(IF self.async_client
                                    THEN "redis.asyncio.sentinel.Sentinel"
                                    ELSE "redis.sentinel.Sentinel",
                                    <<hosts.val>>,
                                    SentinelRedisClient_connection_params(
                                        self.config))}})
         : hosts \in {SentinelRedisClient__parse_sentinel_hosts(self)}})

----------------------------------------------------------------------------
(* clients/cluster.py                                                      *)

\* _validate_config that tests the mode only
ClusterRedisClient__validate_config_mode_only(cfg) ==
    IF cfg.mode # CLUSTER
    THEN "Configuration must be for CLUSTER mode"
    ELSE ""

ClusterRedisClient__validate_config(cfg) ==
    IF cfg.mode # CLUSTER
    THEN "Configuration must be for CLUSTER mode"
    ELSE IF cfg.cluster_nodes = NONE_LIST \/ cfg.cluster_nodes = <<>>
    THEN "Cluster nodes are required for Cluster mode"
    ELSE ""

ClusterRedisClient(cfg, async_client) ==
    The({IF err # "" THEN Raise("ValueError", err)
         ELSE Return([config |-> cfg, async_client |-> async_client]) :
             err \in {ClusterRedisClient__validate_config(cfg)}})

\* ClusterNode(host, port) is the pair
ClusterRedisClient__parse_cluster_nodes(self) ==
    HostPortPairs(self.config.cluster_nodes, 6379)

ClusterRedisClient_connection_params(cfg, startup_nodes) ==
    The({[k \in keys |-> IF k = "decode_responses" THEN TRUE
                         ELSE IF k = "startup_nodes" THEN startup_nodes
                         ELSE cfg[k]] : keys \in
               {{"startup_nodes", "decode_responses", "ssl"}
                \cup (IF Truthy(cfg.password) THEN {"password"} ELSE {})
                \cup (IF cfg.max_connections # 0 THEN {"max_connections"} ELSE {})
                \cup (IF cfg.socket_timeout # 0 THEN {"socket_timeout"} ELSE {})
                \cup (IF cfg.socket_connect_timeout # 0
                      THEN {"socket_connect_timeout"} ELSE {})
                \cup (IF cfg.ssl /\ Truthy(cfg.ssl_cert_reqs)
                      THEN {"ssl_cert_reqs"} ELSE {})}})

ClusterRedisClient_create_connection(self, ext) ==
    The({IF ~nodes.ok THEN [calls |-> <<>>, ret |-> nodes]
         ELSE The({[calls |-> <<call>>,
                    ret |-> IF ext.ctor = "ok" THEN Return(Object(call))
                            ELSE ExtError] :
                       call \in {Call(IF self.async_client
                                      THEN "redis.asyncio.RedisCluster"
                                      ELSE "redis.RedisCluster",
                                      <<>>,
                                      ClusterRedisClient_connection_params(
                                          self.config, nodes.val))}})
         : nodes \in {ClusterRedisClient__parse_cluster_nodes(self)}})

----------------------------------------------------------------------------
(* simple_api.py                                                           *)

\* what a builder class does with a parsed descriptor: __init__, then
\* create_connection when __init__ did not raise
Build(builder, cfg, async_client, ext) ==
    The({IF ~client.ok THEN [calls |-> <<>>, ret |-> client]
         ELSE IF builder = STANDALONE
         THEN StandaloneRedisClient_create_connection(client.val, ext)
         ELSE IF builder = SENTINEL
         THEN SentinelRedisClient_create_connection(client.val, ext)
         ELSE ClusterRedisClient_create_connection(client.val, ext) :
             client \in {IF builder = STANDALONE
                         THEN StandaloneRedisClient(cfg, async_client)
                         ELSE IF builder = SENTINEL
                         THEN SentinelRedisClient(cfg, async_client)
                         ELSE ClusterRedisClient(cfg, async_client)}})

\* the if/elif chain on config.mode.value: the builder class it selects
Dispatch(mode) == mode

\* get_redis_client that builds a second time when the first build raised
get_redis_client_retrying(redis_dsn, async_client, ext) ==
    IF redis_dsn = <<>>
    THEN [calls |-> <<>>,
          ret |-> Raise("ValueError", "Invalid Redis URI format")]
    ELSE The({IF ~cfg.ok THEN [calls |-> <<>>, ret |-> cfg]
              ELSE The({IF b.ret.ok THEN b
                        ELSE [calls |-> b.calls \o b.calls, ret |-> b.ret] :
                            b \in {Build(Dispatch(cfg.val.mode), cfg.val,
                                         async_client, ext)}})
              : cfg \in {parse_redis_uri(redis_dsn)}})

get_redis_client(redis_dsn, async_client, ext) ==
    IF redis_dsn = <<>>
    THEN [calls |-> <<>>,
          ret |-> Raise("ValueError", "Invalid Redis URI format")]
    ELSE The({IF ~cfg.ok THEN [calls |-> <<>>, ret |-> cfg]
              ELSE Build(Dispatch(cfg.val.mode), cfg.val, async_client, ext) :
                  cfg \in {parse_redis_uri(redis_dsn)}})

----------------------------------------------------------------------------
(* The URIs a caller passes: scheme "://" [userinfo "@"] hosts [path],     *)
(* written as a record of its parts, and a few strings without "://"       *)

\* the longest host list written in a URI
MaxHosts == 2

Schemes ==
    {<<"r","e","d","i","s">>, <<"r","e","d","i","s","s">>, <<"r","e","d","i","s","+","s","e","n","t","i","n","e","l">>, <<"r","e","d","i","s","+","c","l","u","s","t","e","r">>, <<"h","t","t","p">>}

NoUserInfo == [none |-> TRUE]

\* user ":" password, with or without a user, the password with or without
\* an "@" of its own
UserInfos ==
    {NoUserInfo,
     [user |-> <<"u">>, password |-> <<"p">>],
     [user |-> <<>>, password |-> <<"p","@","q">>]}

\* host[:port] fragments: a port, an upper-case host, no port, a port that
\* is no integer, port 0, a port above 65535
Entries ==
    {[host |-> <<"h","1">>, port |-> <<"7","0","0","0">>],
     [host |-> <<"H","2">>, port |-> <<"6","3","8","0">>],
     [host |-> <<"h","3">>, port |-> NONE],
     [host |-> <<"h","4">>, port |-> <<"x">>],
     [host |-> <<"h","5">>, port |-> <<"0">>],
     [host |-> <<"h","6">>, port |-> <<"9","9","9","9","9">>]}

\* the fragments written after the first one
MoreEntries ==
    {[host |-> <<"h","1">>, port |-> <<"7","0","0","0">>], [host |-> <<"h","4">>, port |-> <<"x">>]}

Paths == {<<>>, <<"/">>, <<"/","2">>, <<"/","1","5">>, <<"/","-","1">>, <<"/","m","y","m","a","s","t","e","r">>}

HostLists ==
    {<<>>} \cup
    UNION {{<<e>> \o more : e \in Entries, more \in [1..k -> MoreEntries]} :
              k \in 0..(MaxHosts - 1)}

\* host lists without a host: one or two empty fragments (the second
\* written after a comma), a fragment that is a space, or a port alone
BlankHostLists ==
    {<<[host |-> <<>>, port |-> NONE]>>,
     <<[host |-> <<>>, port |-> NONE], [host |-> <<>>, port |-> NONE]>>,
     <<[host |-> <<" ">>, port |-> NONE]>>,
     <<[host |-> <<>>, port |-> <<"7","0","0","0">>]>>}

WrittenUris ==
    [scheme : Schemes, userinfo : UserInfos, hosts : HostLists, path : Paths]
    \cup [scheme : {<<>>}, userinfo : {NoUserInfo},
          hosts : {<<>>, <<[host |-> <<"h","1">>, port |-> <<"7","0","0","0">>]>>},
          path : {<<>>, <<"/","2">>}]
    \cup [scheme : {<<"r","e","d","i","s","+","s","e","n","t","i","n","e","l">>, <<"r","e","d","i","s","+","c","l","u","s","t","e","r">>},
          userinfo : UserInfos, hosts : BlankHostLists,
          path : {<<>>, <<"/","m","y","m","a","s","t","e","r">>}]

\* the text of a written fragment: host, or host ":" port
EntryText(e) ==
    IF e.port = NONE THEN e.host ELSE e.host \o <<":">> \o e.port

\* the string of a written URI
BuildUri(w) ==
    (IF w.scheme = <<>> THEN <<>> ELSE w.scheme \o <<":", "/", "/">>)
    \o (IF w.userinfo = NoUserInfo THEN <<>>
        ELSE w.userinfo.user \o <<":">> \o w.userinfo.password \o <<"@">>)
    \o join([i \in 1..Len(w.hosts) |-> EntryText(w.hosts[i])], <<",">>)
    \o w.path

\* the **overrides a caller passes to create_config_from_uri
OverrideDicts ==
    {<<>>,
     [max_connections |-> 20, socket_timeout |-> 10],
     [port |-> 0],
     [ssl_cert_reqs |-> <<"r","e","q","u","i","r","e","d">>],
     [host |-> <<>>, db |-> 3]}

----------------------------------------------------------------------------
(* factory.py: RedisClientFactory, the registry of one builder per mode.   *)
(* A RedisClientBuilder is a callable of (config, async_client) that       *)
(* returns a RedisClient or an Awaitable[RedisClient]; the object it       *)
(* returns records who built it and with what.                             *)

\* dict.get(key) on a dict that has no such key
NoBuilder == [none |-> TRUE]

\* the callables a caller registers: the two members of the Union
RedisClientBuilder ==
    {[name |-> "build_a", returns |-> "RedisClient"],
     [name |-> "build_b", returns |-> "RedisClient"],
     [name |-> "build_c", returns |-> "Awaitable"]}

\* what awaiting builder(config, async_client) gives
BuiltClient(builder, cfg, async_client) ==
    [built_by |-> builder.name, config |-> cfg, async_client |-> async_client]

\* builder(config, async_client)
CallBuilder(builder, cfg, async_client) ==
    IF builder.returns = "Awaitable"
    THEN [awaitable |-> BuiltClient(builder, cfg, async_client)]
    ELSE BuiltClient(builder, cfg, async_client)

\* await x
Await(x) ==
    IF "awaitable" \in DOMAIN x THEN Return(x.awaitable)
    ELSE Raise("TypeError", "object can't be used in 'await' expression")

\* f"{mode}" of a member of the Enum
EnumStr(mode) ==
    IF mode = STANDALONE THEN "RedisConnectionMode.STANDALONE"
    ELSE IF mode = SENTINEL THEN "RedisConnectionMode.SENTINEL"
    ELSE "RedisConnectionMode.CLUSTER"

\* RedisClientFactory(): self._builders = {}
RedisClientFactory == [_builders |-> [mode \in RedisConnectionMode |-> NoBuilder]]

\* register_builder that keeps a builder already registered for the mode
RedisClientFactory_register_builder_first_wins(self, mode, builder) ==
    IF self._builders[mode] # NoBuilder THEN self
    ELSE [self EXCEPT !._builders[mode] = builder]

\* self._builders[mode] = builder
RedisClientFactory_register_builder(self, mode, builder) ==
    [self EXCEPT !._builders[mode] = builder]

\* await self.create_client(config, async_client): the outcome and the
\* builder calls made
RedisClientFactory_create_client(self, cfg, async_client) ==
    The({IF builder = NoBuilder
         THEN [calls |-> <<>>,
               ret |-> Raise("NotImplementedError",
                             "Client creation for " \o EnumStr(cfg.mode)
                                 \o " mode not yet implemented")]
         ELSE IF async_client
         THEN [calls |-> <<[fn |-> builder.name, pos |-> <<cfg, async_client>>]>>,
               ret |-> Await(CallBuilder(builder, cfg, async_client))]
         ELSE [calls |-> <<[fn |-> builder.name, pos |-> <<cfg, async_client>>]>>,
               ret |-> Return(CallBuilder(builder, cfg, async_client))]
             : builder \in {self._builders[cfg.mode]}})

----------------------------------------------------------------------------
(* What a call leaves of the descriptors passed to it.  A descriptor is a  *)
(* mutable dataclass instance, and its list fields are mutable lists; the  *)
(* functions below assign to no field of their arguments and change no     *)
(* list of theirs in place.                                                *)

\* validate_config that strips the host of its argument in place
validate_config_leaves_host_stripped(cfg) == [cfg EXCEPT !.host = strip(@)]

\* config after validate_config(config): only reads of config.<field>
validate_config_leaves(cfg) == cfg

\* base and override after merge_configs(base, override): override.__dict__
\* is read, and replace() makes a new instance
merge_configs_leaves(base, override) == [base |-> base, override |-> override]

\* config after builder(config, async_client): self.config = config keeps
\* the instance, the guards only read it
BuilderInit_leaves(builder, cfg) == cfg

\* self.config after self.create_connection(): the parameters are copied
\* out of it, and the host strings are split into new pairs
BuilderCreateConnection_leaves(builder, self) == self.config

----------------------------------------------------------------------------
(* The caller: one library call at a time.  op is the call just made, uri  *)
(* / written / args its arguments, ret its outcome, calls the calls it     *)
(* made on the external library, config the descriptor the caller holds    *)
(* (the last one returned), depth the number of calls made on it, factory  *)
(* the RedisClientFactory the caller holds.                                *)

NoConfig == [none |-> TRUE]

NoWritten == [none |-> TRUE]

NoArgs == [none |-> TRUE]

Init ==
    /\ op = "idle"
    /\ uri = <<>>
    /\ written = NoWritten
    /\ args = NoArgs
    /\ ret = Return(NoValue)
    /\ calls = <<>>
    /\ config = NoConfig
    /\ depth = 0
    /\ factory = RedisClientFactory

\* config = parse_redis_uri(u), for a URI of the set uris
ParseFrom(uris) ==
    /\ op = "idle"
    /\ UNCHANGED factory
    /\ \E w \in uris :
          \E u \in {BuildUri(w)} :
          \E r \in {parse_redis_uri(u)} :
              /\ op' = "parse_redis_uri"
              /\ uri' = u
              /\ written' = w
              /\ args' = NoArgs
              /\ ret' = r
              /\ calls' = <<>>
              /\ config' = IF r.ok THEN r.val ELSE NoConfig
              /\ depth' = 0

ParseRedisUri == ParseFrom(WrittenUris)

CreateConfigFromUri ==
    /\ op = "idle"
    /\ UNCHANGED factory
    /\ \E w \in WrittenUris, ov \in OverrideDicts :
          \E u \in {BuildUri(w)} :
          \E r \in {create_config_from_uri(u, ov)} :
              /\ op' = "create_config_from_uri"
              /\ uri' = u
              /\ written' = w
              /\ args' = [overrides |-> ov]
              /\ ret' = r
              /\ calls' = <<>>
              /\ config' = IF r.ok THEN r.val ELSE NoConfig
              /\ depth' = 0

GetRedisClient ==
    /\ op = "idle"
    /\ UNCHANGED factory
    /\ \E w \in WrittenUris, async_client \in BOOLEAN, ext \in ExtOutcomes :
          \E u \in {BuildUri(w)} :
          \E r \in {get_redis_client(u, async_client, ext)} :
              /\ op' = "get_redis_client"
              /\ uri' = u
              /\ written' = w
              /\ args' = [async_client |-> async_client, ext |-> ext]
              /\ ret' = r.ret
              /\ calls' = r.calls
              /\ config' = NoConfig
              /\ depth' = 0

\* the call has returned or raised; the caller goes on to its next call
Done ==
    /\ op # "idle"
    /\ UNCHANGED factory
    /\ op' = "idle"
    /\ uri' = <<>>
    /\ written' = NoWritten
    /\ args' = NoArgs
    /\ ret' = Return(NoValue)
    /\ calls' = <<>>
    /\ config' = NoConfig
    /\ depth' = 0

Next == ParseRedisUri \/ CreateConfigFromUri \/ GetRedisClient \/ Done

Spec == Init /\ [][Next]_vars

----------------------------------------------------------------------------
(* The caller of the configuration utilities: it gets a descriptor from    *)
(* the constructor, get_default_config or parse_redis_uri, then validates  *)
(* and merges it, at most MaxChain calls on one descriptor.                *)

MaxChain == 2

HostValues == {<<>>, <<" ">>, <<"h">>}

OneHostList == <<<<"s","1",":","2","6","3","7","9">>>>

OneNodeList == <<<<"n","1",":","7","0","0","0">>>>

\* the keyword arguments validate_config reads: the mode with its own
\* required fields unset, empty or set, and ssl with ssl_cert_reqs
ModeKwargs ==
    {[mode |-> STANDALONE]}
    \cup {[mode |-> SENTINEL, sentinel_hosts |-> sh, service_name |-> sn] :
              sh \in {NONE_LIST, <<>>, OneHostList},
              sn \in {NONE, <<>>, <<"m","y","m","a","s","t","e","r">>}}
    \cup {[mode |-> CLUSTER, cluster_nodes |-> cn] :
              cn \in {NONE_LIST, <<>>, OneNodeList}}

SslKwargs ==
    {[ssl |-> FALSE], [ssl |-> TRUE], [ssl |-> TRUE, ssl_cert_reqs |-> <<>>],
     [ssl |-> TRUE, ssl_cert_reqs |-> <<"r","e","q","u","i","r","e","d">>]}

\* the union of two keyword dicts with disjoint keys
Union(kw1, kw2) ==
    [k \in DOMAIN kw1 \cup DOMAIN kw2 |->
        IF k \in DOMAIN kw1 THEN kw1[k] ELSE kw2[k]]

ValidationKwargs ==
    {Union([host |-> h], Union(mk, sk)) :
         h \in HostValues, mk \in ModeKwargs, sk \in SslKwargs}

\* host and one more keyword: every field at a value that is not its
\* default, and the values __post_init__ rejects
SingleKwargs ==
    {[host |-> <<"h">>, port |-> v] : v \in {6380, 0, 65536}}
    \cup {[host |-> <<"h">>, db |-> v] : v \in {1, 0 - 1}}
    \cup {[host |-> <<"h">>, max_connections |-> v] : v \in {20, 0}}
    \cup {[host |-> <<"h">>, socket_timeout |-> v] : v \in {10, 0, 0 - 1}}
    \cup {[host |-> <<"h">>, socket_connect_timeout |-> v] : v \in {10, 0, 0 - 1}}
    \cup {[host |-> <<"h">>, password |-> <<"p">>],
          [host |-> <<"h">>, sentinel_password |-> <<"s","p">>],
          [host |-> <<"h">>, ssl_ca_certs |-> <<"c","a">>],
          [host |-> <<"r","e","d","i","s",".","e","x","a","m","p","l","e",".","c","o","m">>, port |-> 6380, password |-> <<"s","e","c","r","e","t">>]}

ConstructorKwargs == ValidationKwargs \cup SingleKwargs

\* the URIs of the unit tests' shapes
SampleUris ==
    {w \in WrittenUris : /\ w.scheme # <<>>
                         /\ w.userinfo = [user |-> <<"u">>, password |-> <<"p">>]
                         /\ w.hosts = <<[host |-> <<"h","1">>, port |-> <<"7","0","0","0">>]>>
                         /\ w.path \in {<<"/","2">>, <<"/","m","y","m","a","s","t","e","r">>}}

\* the other descriptor of a merge: every field at its default, or every
\* field set
MergePartners ==
    {get_default_config(STANDALONE),
     [host |-> <<"b">>, port |-> 6390, password |-> <<"b","p">>, db |-> 2,
      mode |-> SENTINEL, sentinel_hosts |-> <<<<"s","9",":","2","6","3","7","9">>>>,
      sentinel_password |-> <<"b","s","p">>, service_name |-> <<"b","m">>,
      cluster_nodes |-> <<<<"n","9",":","7","0","0","0">>>>, max_connections |-> 30,
      socket_timeout |-> 7, socket_connect_timeout |-> 8, ssl |-> TRUE,
      ssl_cert_reqs |-> <<"n","o","n","e">>, ssl_ca_certs |-> <<"b","c","a">>]}

Construct ==
    /\ op = "idle"
    /\ UNCHANGED factory
    /\ \E kw \in ConstructorKwargs :
          \E r \in {RedisConnectionConfig(kw)} :
              /\ op' = "RedisConnectionConfig"
              /\ args' = [kw |-> kw]
              /\ ret' = r
              /\ config' = IF r.ok THEN r.val ELSE NoConfig
              /\ depth' = 0
              /\ UNCHANGED <<uri, written, calls>>

GetDefaultConfig ==
    /\ op = "idle"
    /\ UNCHANGED factory
    /\ \E mode \in RedisConnectionMode :
          \E c \in {get_default_config(mode)} :
              /\ op' = "get_default_config"
              /\ args' = [mode |-> mode]
              /\ ret' = Return(c)
              /\ config' = c
              /\ depth' = 0
              /\ UNCHANGED <<uri, written, calls>>

ParseSampleUri == ParseFrom(SampleUris)

ValidateConfig ==
    /\ config # NoConfig
    /\ depth < MaxChain
    /\ UNCHANGED factory
    /\ \E err \in {validate_config(config)} :
          /\ op' = "validate_config"
          /\ args' = [config |-> config]
          /\ ret' = IF err = "" THEN Return(NoValue) ELSE Raise("ValueError", err)
          /\ depth' = depth + 1
          /\ config' = validate_config_leaves(config)
          /\ UNCHANGED <<uri, written, calls>>

\* merge_configs with the held descriptor as base or as override
MergeConfigs ==
    /\ config # NoConfig
    /\ depth < MaxChain
    /\ UNCHANGED factory
    /\ \E other \in MergePartners, held_is_base \in BOOLEAN :
          \E base \in {IF held_is_base THEN config ELSE other},
             override \in {IF held_is_base THEN other ELSE config} :
          \E r \in {merge_configs(base, override)} :
              /\ op' = "merge_configs"
              /\ args' = merge_configs_leaves(base, override)
              /\ ret' = r
              /\ config' = IF r.ok THEN r.val ELSE NoConfig
              /\ depth' = depth + 1
              /\ UNCHANGED <<uri, written, calls>>

NextConfig ==
    \/ Construct
    \/ GetDefaultConfig
    \/ ParseSampleUri
    \/ ValidateConfig
    \/ MergeConfigs
    \/ Done

SpecConfig == Init /\ [][NextConfig]_vars

----------------------------------------------------------------------------
(* The caller of every operation that returns a descriptor: the            *)
(* configuration utilities above and create_config_from_uri.               *)

CreateConfigFromSampleUri ==
    /\ op = "idle"
    /\ UNCHANGED factory
    /\ \E w \in SampleUris, ov \in OverrideDicts :
          \E u \in {BuildUri(w)} :
          \E r \in {create_config_from_uri(u, ov)} :
              /\ op' = "create_config_from_uri"
              /\ uri' = u
              /\ written' = w
              /\ args' = [overrides |-> ov]
              /\ ret' = r
              /\ calls' = <<>>
              /\ config' = IF r.ok THEN r.val ELSE NoConfig
              /\ depth' = 0

NextDescriptors ==
    \/ Construct
    \/ GetDefaultConfig
    \/ ParseSampleUri
    \/ CreateConfigFromSampleUri
    \/ ValidateConfig
    \/ MergeConfigs
    \/ Done

SpecDescriptors == Init /\ [][NextDescriptors]_vars

----------------------------------------------------------------------------
(* The caller of the client builders: it gets a descriptor as above, makes  *)
(* a builder of any of the three classes on it, and calls                  *)
(* create_connection on the builder it got.                                *)

\* builder(config, async_client): the __init__ of the class
BuilderInit(builder, cfg, async_client) ==
    IF builder = STANDALONE THEN StandaloneRedisClient(cfg, async_client)
    ELSE IF builder = SENTINEL THEN SentinelRedisClient(cfg, async_client)
    ELSE ClusterRedisClient(cfg, async_client)

\* self.create_connection() of the class
BuilderCreateConnection(builder, self, ext) ==
    IF builder = STANDALONE
    THEN StandaloneRedisClient_create_connection(self, ext)
    ELSE IF builder = SENTINEL
    THEN SentinelRedisClient_create_connection(self, ext)
    ELSE ClusterRedisClient_create_connection(self, ext)

NewBuilder ==
    /\ config # NoConfig
    /\ depth = 0
    /\ UNCHANGED factory
    /\ \E builder \in RedisConnectionMode, async_client \in BOOLEAN :
          /\ op' = "builder.__init__"
          /\ args' = [builder |-> builder, config |-> config,
                      async_client |-> async_client]
          /\ ret' = BuilderInit(builder, config, async_client)
          /\ calls' = <<>>
          /\ depth' = 1
          /\ config' = BuilderInit_leaves(builder, config)
          /\ UNCHANGED <<uri, written>>

CreateConnection ==
    /\ op = "builder.__init__"
    /\ ret.ok
    /\ UNCHANGED factory
    /\ \E ext \in ExtOutcomes :
          \E r \in {BuilderCreateConnection(args.builder, ret.val, ext)} :
              /\ op' = "builder.create_connection"
              /\ args' = [builder |-> args.builder, self |-> ret.val,
                          ext |-> ext]
              /\ ret' = r.ret
              /\ calls' = r.calls
              /\ depth' = 2
              /\ config' = BuilderCreateConnection_leaves(args.builder, ret.val)
              /\ UNCHANGED <<uri, written>>

NextBuilders ==
    \/ Construct
    \/ GetDefaultConfig
    \/ ParseSampleUri
    \/ NewBuilder
    \/ CreateConnection
    \/ Done

SpecBuilders == Init /\ [][NextBuilders]_vars

----------------------------------------------------------------------------
(* The caller of everything that is passed a descriptor: the configuration *)
(* utilities and the builders, on the descriptor it holds.                 *)

NextFrame ==
    \/ Construct
    \/ GetDefaultConfig
    \/ ParseSampleUri
    \/ ValidateConfig
    \/ MergeConfigs
    \/ NewBuilder
    \/ CreateConnection
    \/ Done

SpecFrame == Init /\ [][NextFrame]_vars

----------------------------------------------------------------------------
(* The caller of the factory: it makes a factory, registers builders on    *)
(* it in any order, gets a descriptor and awaits create_client on it.      *)

NewFactory ==
    /\ op = "idle"
    /\ factory # RedisClientFactory
    /\ op' = "RedisClientFactory"
    /\ args' = NoArgs
    /\ ret' = Return(NoValue)
    /\ factory' = RedisClientFactory
    /\ calls' = <<>>
    /\ depth' = 0
    /\ UNCHANGED <<uri, written, config>>

RegisterBuilder ==
    /\ op = "idle"
    /\ \E mode \in RedisConnectionMode, builder \in RedisClientBuilder :
          /\ op' = "register_builder"
          /\ args' = [mode |-> mode, builder |-> builder]
          /\ ret' = Return(NoValue)
          /\ factory' = RedisClientFactory_register_builder(factory, mode, builder)
          /\ calls' = <<>>
          /\ depth' = 0
          /\ UNCHANGED <<uri, written, config>>

CreateClient ==
    /\ config # NoConfig
    /\ depth = 0
    /\ \E async_client \in BOOLEAN :
          \E r \in {RedisClientFactory_create_client(factory, config, async_client)} :
              /\ op' = "create_client"
              /\ args' = [config |-> config, async_client |-> async_client]
              /\ ret' = r.ret
              /\ calls' = r.calls
              /\ depth' = 1
              /\ UNCHANGED <<uri, written, config, factory>>

NextFactory ==
    \/ NewFactory
    \/ RegisterBuilder
    \/ GetDefaultConfig
    \/ CreateClient
    \/ Done

SpecFactory == Init /\ [][NextFactory]_vars

----------------------------------------------------------------------------
(* Properties of parse_redis_uri                                           *)

RedisSchemes ==
    {<<"r","e","d","i","s">>, <<"r","e","d","i","s","s">>, <<"r","e","d","i","s","+","s","e","n","t","i","n","e","l">>, <<"r","e","d","i","s","+","c","l","u","s","t","e","r">>}

\* the number a written run of decimal digits denotes
Written(digits) == DigitsValue(digits, Len(digits))

\* parse_redis_uri has just been called on a URI with a scheme
Parsed == op = "parse_redis_uri" /\ written.scheme # <<>>

\* C1: the mode of the descriptor parse_redis_uri returns is decided by the
\* URI's scheme alone: redis and rediss give STANDALONE, redis+sentinel
\* gives SENTINEL, redis+cluster gives CLUSTER; any other non-empty scheme,
\* and only such a scheme, raises ValueError "Invalid Redis URI scheme:
\* <scheme>".
C1_ModeFromSchemeAlone ==
    Parsed =>
        /\ ret.ok =>
              \/ /\ written.scheme \in {<<"r","e","d","i","s">>, <<"r","e","d","i","s","s">>}
                 /\ ret.val.mode = STANDALONE
              \/ /\ written.scheme = <<"r","e","d","i","s","+","s","e","n","t","i","n","e","l">>
                 /\ ret.val.mode = SENTINEL
              \/ /\ written.scheme = <<"r","e","d","i","s","+","c","l","u","s","t","e","r">>
                 /\ ret.val.mode = CLUSTER
        /\ (written.scheme \notin RedisSchemes) <=>
               ret = Raise("ValueError",
                           "Invalid Redis URI scheme: " \o Str(written.scheme))

\* an http:// URI has been refused for its scheme
C1_Witness ==
    /\ Parsed
    /\ written.scheme = <<"h","t","t","p">>
    /\ written.hosts # <<>>
    /\ ret = Raise("ValueError", "Invalid Redis URI scheme: http")

\* the URI is written redis://host:port/db: a host, a port in 1..65535 and
\* a non-negative integer database
WrittenStandalone ==
    /\ Parsed
    /\ written.scheme = <<"r","e","d","i","s">>
    /\ written.userinfo = NoUserInfo
    /\ Len(written.hosts) = 1
    /\ written.hosts[1].host # <<>>
    /\ written.hosts[1].port # NONE
    /\ isdigit(written.hosts[1].port)
    /\ Written(written.hosts[1].port) \in 1..65535
    /\ Len(written.path) > 1
    /\ written.path[1] = "/"
    /\ isdigit(Tail(written.path))

\* C2 as stated: parsing a valid redis://host:port/db returns a descriptor
\* whose host, port and db are exactly the ones written, with mode
\* STANDALONE and ssl false.
C2_AsWritten ==
    WrittenStandalone =>
        /\ ret.ok
        /\ ret.val.host = written.hosts[1].host
        /\ ret.val.port = Written(written.hosts[1].port)
        /\ ret.val.db = Written(Tail(written.path))
        /\ ret.val.mode = STANDALONE
        /\ ret.val.ssl = FALSE

\* C2: parsing a valid redis://host:port/db returns a descriptor whose host
\* is the written host in lower case, whose port and db are exactly the ones
\* written, with mode STANDALONE and ssl false.
C2_HostLowerCased ==
    WrittenStandalone =>
        /\ ret.ok
        /\ ret.val.host = lower(written.hosts[1].host)
        /\ ret.val.port = Written(written.hosts[1].port)
        /\ ret.val.db = Written(Tail(written.path))
        /\ ret.val.mode = STANDALONE
        /\ ret.val.ssl = FALSE

\* redis://H2:6380/15 has been parsed to host h2, port 6380, db 15
C2_Witness ==
    /\ WrittenStandalone
    /\ written.hosts[1].host = <<"H","2">>
    /\ written.path = <<"/","1","5">>
    /\ ret.ok
    /\ ret.val.host = <<"h","2">>
    /\ ret.val.port = 6380
    /\ ret.val.db = 15

\* C3 as stated: the descriptor returned for a sentinel URI with N
\* comma-separated hosts has sentinel_hosts of length N, the written entries
\* in the written order, duplicates kept, and its host and port are the host
\* and port components of the first entry.
C3_SentinelHostsAsWritten ==
    (Parsed /\ written.scheme = <<"r","e","d","i","s","+","s","e","n","t","i","n","e","l">> /\ ret.ok) =>
        /\ Len(ret.val.sentinel_hosts) = Len(written.hosts)
        /\ \A i \in 1..Len(written.hosts) :
               ret.val.sentinel_hosts[i] = EntryText(written.hosts[i])
        /\ ret.val.host = written.hosts[1].host
        /\ written.hosts[1].port # NONE =>
               ret.val.port = Written(written.hosts[1].port)

\* a sentinel URI with the same entry written twice has been parsed, both
\* entries kept
C3_Witness ==
    /\ Parsed
    /\ written.scheme = <<"r","e","d","i","s","+","s","e","n","t","i","n","e","l">>
    /\ Len(written.hosts) = 2
    /\ written.hosts[1] = written.hosts[2]
    /\ ret.ok
    /\ Len(ret.val.sentinel_hosts) = 2

\* C4 as stated: a rediss:// URI parses to a STANDALONE descriptor with ssl
\* true and ssl_cert_reqs set, which validate_config accepts.
C4_RedissPassesValidation ==
    (Parsed /\ written.scheme = <<"r","e","d","i","s","s">> /\ ret.ok) =>
        /\ ret.val.mode = STANDALONE
        /\ ret.val.ssl = TRUE
        /\ ret.val.ssl_cert_reqs # NONE
        /\ validate_config(ret.val) = ""

\* a rediss:// URI has been parsed to a descriptor with ssl true
C4_Witness ==
    /\ Parsed
    /\ written.scheme = <<"r","e","d","i","s","s">>
    /\ ret.ok
    /\ ret.val.ssl = TRUE

----------------------------------------------------------------------------
(* Properties of merge_configs and validate_config                         *)

\* merge_configs(args.base, args.override) has just been called
Merged == op = "merge_configs"

\* the fields that have a default: all but host
DefaultedFields == FieldNames \ {"host"}

\* C5 as stated: every field of override that is not at its default appears
\* in the merged descriptor, and every field override leaves at its default
\* (port = 6379, db = 0, ...) takes base's value.
C5_DefaultsTakeBase ==
    Merged =>
        /\ ret.ok
        /\ ret.val.host = args.override.host
        /\ \A f \in DefaultedFields :
               ret.val[f] = IF args.override[f] # FieldDefaults[f]
                            THEN args.override[f] ELSE args.base[f]

\* C5: every field of override that is not at its default appears in the
\* merged descriptor; a field override leaves at its default takes base's
\* value when that default is None, and keeps the default, replacing base's
\* value, when the default is not None (port = 6379, db = 0, mode =
\* STANDALONE, max_connections = 10, the timeouts, ssl = false).
C5_OnlyNoneDefaultsTakeBase ==
    Merged =>
        /\ ret.ok
        /\ ret.val.host = args.override.host
        /\ \A f \in DefaultedFields :
               /\ args.override[f] # FieldDefaults[f] =>
                      ret.val[f] = args.override[f]
               /\ args.override[f] = FieldDefaults[f] =>
                      ret.val[f] = IF IsNone(f, FieldDefaults[f])
                                   THEN args.base[f] ELSE FieldDefaults[f]

\* an override with port and db at their defaults and no password has been
\* merged over a base with port 6390, db 2 and a password: the result has
\* the default port and db, and base's password
C5_Witness ==
    /\ Merged
    /\ args.override.port = 6379
    /\ args.override.db = 0
    /\ args.override.password = NONE
    /\ args.base.port = 6390
    /\ args.base.db = 2
    /\ args.base.password # NONE
    /\ ret.ok
    /\ ret.val.port = 6379
    /\ ret.val.db = 0
    /\ ret.val.password = args.base.password

\* C6: for every field f, merge_configs(base, override).f is base.f when
\* override.f is None and override.f otherwise.
C6_NoneTakesBase ==
    Merged =>
        /\ ret.ok
        /\ \A f \in FieldNames :
               \/ IsNone(f, args.override[f]) /\ ret.val[f] = args.base[f]
               \/ ~IsNone(f, args.override[f]) /\ ret.val[f] = args.override[f]

\* a merge in which override has fields that are None where base has them
\* set, and fields that are set where base has another value
C6_Witness ==
    /\ Merged
    /\ ret.ok
    /\ \E f \in FieldNames :
           /\ IsNone(f, args.override[f])
           /\ ~IsNone(f, args.base[f])
           /\ ret.val[f] = args.base[f]
    /\ \E f \in FieldNames :
           /\ ~IsNone(f, args.override[f])
           /\ args.override[f] # args.base[f]
           /\ ret.val[f] = args.override[f]

\* validate_config(args.config) has just been called
Validated == op = "validate_config"

\* the string is empty or only spaces
Blank(str) == \A i \in 1..Len(str) : str[i] = " "

\* C7 as stated: validate_config raises ValueError exactly when the host is
\* empty or whitespace, or the mode is SENTINEL and service_name or
\* sentinel_hosts is unset, or the mode is CLUSTER and cluster_nodes is
\* unset or empty, or ssl is true and ssl_cert_reqs is unset; a CLUSTER
\* descriptor with cluster_nodes = None fails with "Cluster nodes are
\* required for Cluster mode".
C7_RaisesIffStated ==
    Validated =>
        /\ (~ret.ok /\ ret.exc = "ValueError") <=>
               \/ Blank(args.config.host)
               \/ /\ args.config.mode = SENTINEL
                  /\ \/ args.config.service_name = NONE
                     \/ args.config.sentinel_hosts = NONE_LIST
               \/ /\ args.config.mode = CLUSTER
                  /\ args.config.cluster_nodes \in {NONE_LIST, <<>>}
               \/ args.config.ssl /\ args.config.ssl_cert_reqs = NONE
        /\ (args.config.mode = CLUSTER /\ args.config.cluster_nodes = NONE_LIST)
               => ret = Raise("ValueError",
                              "Cluster nodes are required for Cluster mode")

\* C7: validate_config raises ValueError exactly when the host is empty or
\* whitespace, or the mode is SENTINEL and service_name or sentinel_hosts is
\* unset or empty, or the mode is CLUSTER and cluster_nodes is unset or
\* empty, or ssl is true and ssl_cert_reqs is unset; a CLUSTER descriptor
\* with a host that is not blank and cluster_nodes = None fails with
\* "Cluster nodes are required for Cluster mode".
C7_RaisesIffUnsetOrEmpty ==
    Validated =>
        /\ ret.ok \/ ret.exc = "ValueError"
        /\ ~ret.ok <=>
               \/ Blank(args.config.host)
               \/ /\ args.config.mode = SENTINEL
                  /\ \/ args.config.service_name \in {NONE, <<>>}
                     \/ args.config.sentinel_hosts \in {NONE_LIST, <<>>}
               \/ /\ args.config.mode = CLUSTER
                  /\ args.config.cluster_nodes \in {NONE_LIST, <<>>}
               \/ args.config.ssl /\ args.config.ssl_cert_reqs = NONE
        /\ (/\ ~Blank(args.config.host)
            /\ args.config.mode = CLUSTER
            /\ args.config.cluster_nodes = NONE_LIST)
               => ret = Raise("ValueError",
                              "Cluster nodes are required for Cluster mode")

\* a SENTINEL descriptor with a host, a service name, no ssl and an empty
\* sentinel_hosts list has been refused
C7_Witness ==
    /\ Validated
    /\ ~Blank(args.config.host)
    /\ args.config.mode = SENTINEL
    /\ args.config.service_name \notin {NONE, <<>>}
    /\ args.config.sentinel_hosts = <<>>
    /\ ~args.config.ssl
    /\ ret = Raise("ValueError",
                   "Sentinel hosts are required for Sentinel mode")

----------------------------------------------------------------------------
(* Properties of create_config_from_uri                                    *)

\* the descriptor parsed from the URI with exactly the fields named in
\* overrides replaced
Overridden(parsed, overrides) ==
    [f \in FieldNames |->
        IF f \in DOMAIN overrides THEN overrides[f] ELSE parsed[f]]

\* C8: create_config_from_uri(uri, **overrides) returns the descriptor
\* parsed from uri with exactly the fields named in overrides replaced by
\* the override values, and it returns only if validate_config accepts that
\* descriptor; otherwise it raises ValueError.
C8_OverridesThenValidation ==
    op = "create_config_from_uri" =>
        \E parsed \in {parse_redis_uri(uri)} :
            /\ ret.ok =>
                  /\ parsed.ok
                  /\ ret.val = Overridden(parsed.val, args.overrides)
                  /\ validate_config(ret.val) = ""
            /\ ~ret.ok => ret.exc = "ValueError"
            /\ (/\ parsed.ok
                /\ __post_init__(Overridden(parsed.val, args.overrides)) = ""
                /\ validate_config(Overridden(parsed.val, args.overrides)) = "")
                   => ret.ok

\* a rediss:// URI with the override ssl_cert_reqs = "required" has been
\* accepted: the parsed host, and the override in place of the parser's None
C8_Witness ==
    /\ op = "create_config_from_uri"
    /\ written.scheme = <<"r","e","d","i","s","s">>
    /\ written.hosts # <<>>
    /\ DOMAIN args.overrides = {"ssl_cert_reqs"}
    /\ ret.ok
    /\ ret.val.host = lower(written.hosts[1].host)
    /\ ret.val.ssl
    /\ ret.val.ssl_cert_reqs = args.overrides.ssl_cert_reqs

----------------------------------------------------------------------------
(* Properties of get_redis_client                                          *)

ExternalConstructors ==
    {"redis.Redis", "redis.asyncio.Redis", "redis.sentinel.Sentinel",
     "redis.asyncio.sentinel.Sentinel", "redis.RedisCluster",
     "redis.asyncio.RedisCluster"}

\* the external constructor of the topology the scheme selects, in its
\* synchronous or asynchronous variant
ConstructorFor(scheme, async_client) ==
    IF scheme \in {<<"r","e","d","i","s">>, <<"r","e","d","i","s","s">>}
    THEN IF async_client THEN "redis.asyncio.Redis" ELSE "redis.Redis"
    ELSE IF scheme = <<"r","e","d","i","s","+","s","e","n","t","i","n","e","l">>
    THEN IF async_client THEN "redis.asyncio.sentinel.Sentinel"
         ELSE "redis.sentinel.Sentinel"
    ELSE IF async_client THEN "redis.asyncio.RedisCluster"
         ELSE "redis.RedisCluster"

\* the calls of external constructors among the calls made
ConstructorCalls == {i \in 1..Len(calls) : calls[i].fn \in ExternalConstructors}

C10_AtMostOneConstruction ==
    op = "get_redis_client" =>
        /\ Cardinality(ConstructorCalls) <= 1
        /\ (uri = <<>> \/ ~parse_redis_uri(uri).ok) =>
               /\ calls = <<>>
               /\ ~ret.ok
               /\ ret.exc = "ValueError"
        /\ (calls # <<>> /\ args.ext.ctor = "raise") =>
               /\ Len(calls) = 1
               /\ ret = ExtError
        /\ (Len(calls) = 2 /\ args.ext.master_for = "raise") => ret = ExtError

\* the cluster constructor has raised and get_redis_client has raised the
\* same exception after that one call
C10_Witness ==
    /\ op = "get_redis_client"
    /\ written.scheme = <<"r","e","d","i","s","+","c","l","u","s","t","e","r">>
    /\ args.ext.ctor = "raise"
    /\ Len(calls) = 1
    /\ calls[1].fn \in ExternalConstructors
    /\ ret = ExtError

----------------------------------------------------------------------------
(* Properties of the client builders                                       *)

\* builder(config, async_client) has just been called
BuilderMade == op = "builder.__init__"

\* C11: constructing a client builder raises ValueError, with no call made
\* on the external library, whenever the descriptor's mode differs from the
\* builder's topology ("Configuration must be for <MODE> mode"), whenever a
\* SENTINEL descriptor has sentinel_hosts or service_name unset or empty,
\* and whenever a CLUSTER descriptor has cluster_nodes unset or empty; no
\* builder object exists after such a failure.
C11_BuilderGuards ==
    BuilderMade =>
        /\ args.config.mode # args.builder =>
               ret = Raise("ValueError",
                           IF args.builder = STANDALONE
                           THEN "Configuration must be for STANDALONE mode"
                           ELSE IF args.builder = SENTINEL
                           THEN "Configuration must be for SENTINEL mode"
                           ELSE "Configuration must be for CLUSTER mode")
        /\ (/\ args.builder = SENTINEL
            /\ \/ args.config.sentinel_hosts \in {NONE_LIST, <<>>}
               \/ args.config.service_name \in {NONE, <<>>})
               => ~ret.ok /\ ret.exc = "ValueError"
        /\ (/\ args.builder = CLUSTER
            /\ args.config.cluster_nodes \in {NONE_LIST, <<>>})
               => ~ret.ok /\ ret.exc = "ValueError"
        /\ ~ret.ok => ret.val = NoValue /\ calls = <<>> /\ ~ENABLED CreateConnection

\* a SENTINEL descriptor with hosts and no service name has been refused by
\* the sentinel builder
C11_Witness ==
    /\ BuilderMade
    /\ args.builder = SENTINEL
    /\ args.config.mode = SENTINEL
    /\ args.config.sentinel_hosts \notin {NONE_LIST, <<>>}
    /\ args.config.service_name = NONE
    /\ ret = Raise("ValueError", "Service name is required for Sentinel mode")
    /\ calls = <<>>

----------------------------------------------------------------------------
(* Properties of parse_redis_uri: errors and defaults                      *)

\* the written fragments that are not blank: the hosts of the URI
NonBlankHosts == SelectSeq(written.hosts, LAMBDA e : ~Blank(EntryText(e)))

\* a sentinel URI whose path is empty or just "/" has been parsed
SentinelWithoutService ==
    /\ Parsed
    /\ written.scheme = <<"r","e","d","i","s","+","s","e","n","t","i","n","e","l">>
    /\ written.path \in {<<>>, <<"/">>}

\* C12 as stated: a sentinel URI without the /service_name path always
\* makes parse_redis_uri fail with "Sentinel URI must include service
\* name", whatever the rest of the URI contains.
C12_AlwaysServiceNameError ==
    SentinelWithoutService =>
        ret = Raise("ValueError", "Sentinel URI must include service name")

\* C12: a sentinel URI without the /service_name path always makes
\* parse_redis_uri fail with a ValueError: "Sentinel URI must include
\* service name" whenever at least one host is written, whatever the hosts
\* and the userinfo are; when no host is written, that error or "Sentinel
\* URI must include at least one sentinel host", the latter whenever there
\* is no userinfo either.
C12_ServiceNameErrorAfterHosts ==
    SentinelWithoutService =>
        /\ ~ret.ok
        /\ ret.val = NoValue
        /\ ret.exc = "ValueError"
        /\ ret.msg \in {"Sentinel URI must include service name",
                        "Sentinel URI must include at least one sentinel host"}
        /\ NonBlankHosts # <<>> =>
               ret.msg = "Sentinel URI must include service name"
        /\ (NonBlankHosts = <<>> /\ written.userinfo = NoUserInfo) =>
               ret.msg = "Sentinel URI must include at least one sentinel host"

\* a sentinel URI with userinfo, a first host whose port is no number and
\* the path "/" has been refused for its missing service name
C12_Witness ==
    /\ SentinelWithoutService
    /\ written.userinfo # NoUserInfo
    /\ written.hosts # <<>>
    /\ written.hosts[1].port = <<"x">>
    /\ written.path = <<"/">>
    /\ ret = Raise("ValueError", "Sentinel URI must include service name")

\* C13 as stated: a cluster URI with an empty host list (no fragment that
\* is not blank after the userinfo, e.g. redis+cluster://) always makes
\* parse_redis_uri fail with "Cluster URI must include at least one node".
C13_EmptyClusterHostList ==
    (Parsed /\ written.scheme = <<"r","e","d","i","s","+","c","l","u","s","t","e","r">> /\ NonBlankHosts = <<>>) =>
        ret = Raise("ValueError", "Cluster URI must include at least one node")

\* a cluster URI with a password and only blank fragments, separated by a
\* comma, has been refused for its empty host list
C13_Witness ==
    /\ Parsed
    /\ written.scheme = <<"r","e","d","i","s","+","c","l","u","s","t","e","r">>
    /\ written.userinfo # NoUserInfo
    /\ Len(written.hosts) = 2
    /\ NonBlankHosts = <<>>
    /\ ret = Raise("ValueError", "Cluster URI must include at least one node")

\* the default port of the mode a scheme selects
ModeDefaultPort(scheme) == IF scheme = <<"r","e","d","i","s","+","s","e","n","t","i","n","e","l">> THEN 26379 ELSE 6379

\* the (host, port) pairs a builder has passed to the external constructor
PairsPassed ==
    IF written.scheme = <<"r","e","d","i","s","+","s","e","n","t","i","n","e","l">>
    THEN calls[1].pos[1] ELSE calls[1].kw.startup_nodes

\* at least one fragment is written and every written fragment is a host
HostsWritten == written.hosts # <<>> /\ NonBlankHosts = written.hosts

\* C14 as stated: a host fragment without a port receives the default port
\* of the mode, 26379 for sentinel and 6379 for cluster: when the first
\* fragment has no port the port of the descriptor parse_redis_uri returns
\* is that default, and the builder of the mode passes the same default to
\* the external constructor for every entry without a port.
C14_ModeDefaultPort ==
    /\ (/\ Parsed
        /\ written.scheme \in {<<"r","e","d","i","s","+","s","e","n","t","i","n","e","l">>, <<"r","e","d","i","s","+","c","l","u","s","t","e","r">>}
        /\ ret.ok
        /\ HostsWritten
        /\ written.hosts[1].port = NONE)
           => ret.val.port = ModeDefaultPort(written.scheme)
    /\ (/\ op = "get_redis_client"
        /\ written.scheme \in {<<"r","e","d","i","s","+","s","e","n","t","i","n","e","l">>, <<"r","e","d","i","s","+","c","l","u","s","t","e","r">>}
        /\ HostsWritten
        /\ calls # <<>>)
           => /\ Len(PairsPassed) = Len(written.hosts)
              /\ \A i \in 1..Len(written.hosts) :
                     written.hosts[i].port = NONE =>
                         PairsPassed[i].port = ModeDefaultPort(written.scheme)

\* the sentinel builder has passed port 26379 to the Sentinel constructor
\* for a first entry written without a port
C14_Witness ==
    /\ op = "get_redis_client"
    /\ written.scheme = <<"r","e","d","i","s","+","s","e","n","t","i","n","e","l">>
    /\ HostsWritten
    /\ written.hosts[1].port = NONE
    /\ calls # <<>>
    /\ PairsPassed[1].port = 26379

\* a standalone URI (redis or rediss) with one host fragment has been parsed
ParsedStandalone ==
    /\ Parsed
    /\ written.scheme \in {<<"r","e","d","i","s">>, <<"r","e","d","i","s","s">>}
    /\ Len(written.hosts) = 1

\* the written text is an integer in 1..65535
ValidPortText(text) == isdigit(text) /\ Written(text) \in 1..65535

\* C15 as stated: for every standalone URI, if no port is written the
\* descriptor's port is 6379; if the written port is not an integer in
\* 1..65535 parse_redis_uri fails with "Invalid port number" and returns no
\* descriptor; otherwise the descriptor's port is the written value.
C15_StandalonePort ==
    ParsedStandalone =>
        IF written.hosts[1].port = NONE
        THEN ret.ok => ret.val.port = 6379
        ELSE IF ~ValidPortText(written.hosts[1].port)
        THEN ret = Raise("ValueError", "Invalid port number") /\ config = NoConfig
        ELSE ret.ok => ret.val.port = Written(written.hosts[1].port)

\* a standalone URI with the port 99999 has been refused
C15_Witness ==
    /\ ParsedStandalone
    /\ written.hosts[1].port = <<"9","9","9","9","9">>
    /\ ret = Raise("ValueError", "Invalid port number")

\* a standalone URI (redis or rediss) with at most one host fragment has
\* been parsed
ParsedAnyStandalone ==
    /\ Parsed
    /\ written.scheme \in {<<"r","e","d","i","s">>, <<"r","e","d","i","s","s">>}
    /\ Len(written.hosts) <= 1

\* the written path is "/" and a run of decimal digits
IntegerPath == Len(written.path) > 1 /\ isdigit(Tail(written.path))

\* the URI has an authority, and a port that is absent or a number up to
\* 65535: the parser gets as far as the path
ReachesThePath ==
    /\ written.hosts # <<>> \/ written.userinfo # NoUserInfo
    /\ \A i \in 1..Len(written.hosts) :
           \/ written.hosts[i].port = NONE
           \/ /\ isdigit(written.hosts[i].port)
              /\ Written(written.hosts[i].port) <= 65535

\* C16 as stated: for every standalone URI the database index comes from
\* the path only: an empty path or "/" gives db = 0, a path that is a
\* non-negative integer after its "/" gives that integer, and any other
\* path makes parse_redis_uri fail with "Invalid database number".
C16_DbFromPath ==
    ParsedAnyStandalone =>
        IF written.path \in {<<>>, <<"/">>}
        THEN ret.ok => ret.val.db = 0
        ELSE IF IntegerPath
        THEN ret.ok => ret.val.db = Written(Tail(written.path))
        ELSE ret = Raise("ValueError", "Invalid database number")

\* C16: for every standalone URI the database index comes from the path
\* only: an empty path or "/" gives db = 0 and a path that is a
\* non-negative integer after its "/" gives that integer; any other path
\* makes parse_redis_uri fail, with "Invalid database number" when the URI
\* has an authority and a port that is absent or a number up to 65535, and
\* with the error of the authority or of the port otherwise, those being
\* tested before the path.
C16_DbFromPathAfterPort ==
    ParsedAnyStandalone =>
        /\ IF written.path \in {<<>>, <<"/">>}
           THEN /\ ret.ok => ret.val.db = 0
                /\ ReachesThePath => ret.ok
           ELSE IF IntegerPath
           THEN /\ ret.ok => ret.val.db = Written(Tail(written.path))
                /\ ReachesThePath => ret.ok
           ELSE /\ ~ret.ok
                /\ ret.exc = "ValueError"
                /\ ReachesThePath <=> ret.msg = "Invalid database number"
        /\ ~ReachesThePath =>
               /\ ~ret.ok
               /\ ret.msg \in {"Invalid port number", "Invalid Redis URI format"}

\* a standalone URI with a valid port and the path /-1 has been refused for
\* its database number
C16_Witness ==
    /\ ParsedAnyStandalone
    /\ ReachesThePath
    /\ written.hosts # <<>>
    /\ written.hosts[1].port # NONE
    /\ written.path = <<"/","-","1">>
    /\ ret = Raise("ValueError", "Invalid database number")

\* C17: in all three modes a URI with the userinfo user:password@ or
\* :password@ yields a descriptor whose password is the text after the
\* colon, the user name being discarded; in SENTINEL mode sentinel_password
\* is the same password; a URI without userinfo yields password and
\* sentinel_password unset.
C17_PasswordFromUserinfo ==
    (Parsed /\ ret.ok) =>
        IF written.userinfo = NoUserInfo
        THEN ret.val.password = NONE /\ ret.val.sentinel_password = NONE
        ELSE /\ ret.val.password = written.userinfo.password
             /\ ret.val.mode = SENTINEL =>
                    ret.val.sentinel_password = written.userinfo.password

\* a sentinel URI with a user name and a password has been parsed: both
\* passwords are the written one
C17_Witness ==
    /\ Parsed
    /\ written.scheme = <<"r","e","d","i","s","+","s","e","n","t","i","n","e","l">>
    /\ written.userinfo # NoUserInfo
    /\ written.userinfo.user # <<>>
    /\ ret.ok
    /\ ret.val.password = written.userinfo.password
    /\ ret.val.sentinel_password = written.userinfo.password

----------------------------------------------------------------------------
(* Properties of every descriptor                                          *)

\* the operations that return a descriptor
DescriptorOps ==
    {"RedisConnectionConfig", "parse_redis_uri", "get_default_config",
     "create_config_from_uri", "merge_configs"}

\* the numeric fields of the descriptor are in their ranges
InRange(c) ==
    /\ c.port \in 1..65535
    /\ c.db >= 0
    /\ c.max_connections >= 1
    /\ c.socket_timeout >= 0
    /\ c.socket_connect_timeout >= 0

\* the value of field f that the keyword arguments ask for
Asked(kw, f) == IF f \in DOMAIN kw THEN kw[f] ELSE FieldDefaults[f]

\* the keyword arguments ask for a numeric value out of its range
AsksOutOfRange(kw) ==
    \/ Asked(kw, "port") \notin 1..65535
    \/ Asked(kw, "db") < 0
    \/ Asked(kw, "max_connections") < 1
    \/ Asked(kw, "socket_timeout") < 0
    \/ Asked(kw, "socket_connect_timeout") < 0

\* C18: every descriptor returned by the constructor, parse_redis_uri,
\* get_default_config, create_config_from_uri or merge_configs, after any
\* sequence of such calls, has port in 1..65535, db >= 0, max_connections
\* >= 1 and both timeouts >= 0; an operation asked for a value out of these
\* ranges raises ValueError and returns no descriptor.
C18_DescriptorsInRange ==
    /\ config # NoConfig => InRange(config)
    /\ op \in DescriptorOps =>
           /\ ret.ok => InRange(ret.val) /\ config = ret.val
           /\ ~ret.ok => ret.val = NoValue /\ config = NoConfig
    /\ (op = "RedisConnectionConfig" /\ AsksOutOfRange(args.kw)) =>
           ~ret.ok /\ ret.exc = "ValueError"
    /\ (/\ op = "create_config_from_uri"
        /\ DOMAIN args.overrides # {}
        /\ AsksOutOfRange([f \in DOMAIN args.overrides \ {"host"} |->
                              args.overrides[f]]))
           => ~ret.ok /\ ret.exc = "ValueError"

\* create_config_from_uri has refused the override port = 0 on a URI that
\* parses, and returned no descriptor
C18_Witness ==
    /\ op = "create_config_from_uri"
    /\ DOMAIN args.overrides = {"port"}
    /\ args.overrides.port = 0
    /\ ret = Raise("ValueError", "Port must be between 1 and 65535")
    /\ config = NoConfig

\* C19 as stated: every descriptor parse_redis_uri returns, in any mode,
\* has a host that is present and not empty.
C19_HostPresent ==
    (Parsed /\ ret.ok) => ret.val.host # NONE /\ ~Blank(ret.val.host)

\* a standalone URI without a host has been parsed to the host localhost
C19_Witness ==
    /\ Parsed
    /\ written.hosts = <<>>
    /\ ret.ok
    /\ ret.val.mode = STANDALONE
    /\ ret.val.host = <<"l","o","c","a","l","h","o","s","t">>

----------------------------------------------------------------------------
(* C20: the registry of RedisClientFactory                                 *)

\* a register_builder step sets the entry of its mode to its builder and
\* leaves the entries of the other modes alone; a step of any other call
\* but RedisClientFactory() leaves the whole registry alone
RegistrySteps ==
    /\ op' = "register_builder" =>
          /\ factory'._builders[args'.mode] = args'.builder
          /\ \A m \in RedisConnectionMode \ {args'.mode} :
                factory'._builders[m] = factory._builders[m]
    /\ op' \notin {"register_builder", "RedisClientFactory"} =>
          factory' = factory

\* a create_client step on an unregistered mode raises NotImplementedError
\* naming the mode and calls no builder
UnregisteredRaises ==
    op' = "create_client" /\ factory._builders[args'.config.mode] = NoBuilder =>
        /\ ret' = Raise("NotImplementedError",
                        "Client creation for RedisConnectionMode."
                            \o (IF args'.config.mode = STANDALONE THEN "STANDALONE"
                                ELSE IF args'.config.mode = SENTINEL THEN "SENTINEL"
                                ELSE "CLUSTER")
                            \o " mode not yet implemented")
        /\ calls' = <<>>

\* a create_client step on a registered mode calls the registered builder,
\* and no other, once with (config, async_client)
RegisteredIsCalled ==
    op' = "create_client" /\ factory._builders[args'.config.mode] # NoBuilder =>
        calls' = <<[fn |-> factory._builders[args'.config.mode].name,
                    pos |-> <<args'.config, args'.async_client>>]>>

----------------------------------------------------------------------------
(* C21: the descriptors passed to a call are left as they were             *)

----------------------------------------------------------------------------
(* C22: parsing, writing the descriptor as a URI again, and parsing that   *)

\* a sentinel or cluster URI has been parsed and accepted
ParsedList ==
    /\ Parsed
    /\ written.scheme \in {<<"r","e","d","i","s","+","s","e","n","t","i","n","e","l">>,
                           <<"r","e","d","i","s","+","c","l","u","s","t","e","r">>}
    /\ ret.ok

\* the host list of a descriptor, by its mode
HostListOf(cfg) ==
    IF cfg.mode = SENTINEL THEN cfg.sentinel_hosts ELSE cfg.cluster_nodes

\* the URI written from a descriptor: the scheme of its mode, ":password@"
\* when a password is set, the entries joined by commas, "/service_name"
\* for sentinel
Rebuilt(cfg) ==
    (IF cfg.mode = SENTINEL
     THEN <<"r","e","d","i","s","+","s","e","n","t","i","n","e","l">>
     ELSE <<"r","e","d","i","s","+","c","l","u","s","t","e","r">>)
    \o <<":", "/", "/">>
    \o (IF cfg.password # NONE THEN <<":">> \o cfg.password \o <<"@">> ELSE <<>>)
    \o join(HostListOf(cfg), <<",">>)
    \o (IF cfg.mode = SENTINEL THEN <<"/">> \o cfg.service_name ELSE <<>>)

\* the rebuilt URI parses to the same host list, in the same order, and
\* the same service name
RoundTrips(cfg) ==
    \E again \in {parse_redis_uri(Rebuilt(cfg))} :
        /\ again.ok
        /\ HostListOf(again.val) = HostListOf(cfg)
        /\ again.val.service_name = cfg.service_name

\* C22 as stated: for every sentinel or cluster URI that parse_redis_uri
\* accepts, the URI rebuilt from the descriptor parses again to the same
\* host list in the same order and the same service name.
C22_RoundTrip == ParsedList => RoundTrips(ret.val)

\* the round trip fails only when an entry of the host list holds an '@',
\* that is, only through the split of C30
C22_FailsOnlyThroughAt ==
    ParsedList /\ ~RoundTrips(ret.val) =>
        \E i \in 1..Len(HostListOf(ret.val)) : Contains(HostListOf(ret.val)[i], "@")

\* a sentinel URI with a password without '@', two hosts and a service
\* name has been accepted, and its descriptor round-trips
C22_Witness ==
    /\ ParsedList
    /\ ret.val.mode = SENTINEL
    /\ ret.val.password = <<"p">>
    /\ Len(ret.val.sentinel_hosts) = 2
    /\ RoundTrips(ret.val)

----------------------------------------------------------------------------
(* C23: the ports of the host list                                         *)

\* the string is "host:port" with an integer port in 1..65535 after its
\* last colon
HostPortString(entry) ==
    /\ Contains(entry, ":")
    /\ ValidPortText(rsplit1(entry, ":")[2])

\* a sentinel or cluster URI has been parsed in which some written
\* fragment has a port that is no integer in 1..65535
ParsedWithBadPort ==
    /\ Parsed
    /\ written.scheme \in {<<"r","e","d","i","s","+","s","e","n","t","i","n","e","l">>,
                           <<"r","e","d","i","s","+","c","l","u","s","t","e","r">>}
    /\ \E i \in 1..Len(written.hosts) :
          /\ written.hosts[i].port # NONE
          /\ ~ValidPortText(written.hosts[i].port)

\* C23 as stated: for every sentinel or cluster URI that parse_redis_uri
\* accepts, every entry of the resulting host list, not only the first, is
\* a "host:port" string whose port is an integer in 1..65535; a URI in
\* which any fragment carries a non-integer or out-of-range port fails
\* with "Invalid port number".
C23_EveryEntryHasAValidPort ==
    /\ ParsedList =>
          \A i \in 1..Len(HostListOf(ret.val)) : HostPortString(HostListOf(ret.val)[i])
    /\ ParsedWithBadPort => ret = Raise("ValueError", "Invalid port number")

\* an accepted URI never has a bad port in its FIRST entry: the only port
\* parse_redis_uri looks at
C23_FirstEntryChecked ==
    ParsedList /\ Contains(HostListOf(ret.val)[1], ":") =>
        HostPortString(HostListOf(ret.val)[1])

\* a cluster URI with two fragments, each with a port in range, has been
\* accepted with both entries as written
C23_Witness ==
    /\ ParsedList
    /\ ret.val.mode = CLUSTER
    /\ Len(written.hosts) = 2
    /\ Len(ret.val.cluster_nodes) = 2
    /\ \A i \in 1..2 : HostPortString(ret.val.cluster_nodes[i])

----------------------------------------------------------------------------
(* C24: the guard of a builder against validate_config                     *)

\* a builder has just been constructed, or refused, on a descriptor of its
\* own mode
GuardedOwnMode == op = "builder.__init__" /\ args.builder = args.config.mode

\* the message validate_config raises on the descriptor given to the
\* builder, "" when it accepts it
ValidationError == validate_config(args.config)

\* C24 as stated: for every descriptor whose mode matches the builder's
\* topology, the construction of the builder raises if and only if
\* validate_config raises, and with the same message (also when a SENTINEL
\* descriptor lacks both service_name and sentinel_hosts); so a descriptor
\* accepted by a builder passes validate_config.
C24_GuardIsValidation ==
    GuardedOwnMode =>
        /\ ret.ok <=> ValidationError = ""
        /\ ~ret.ok => ret.msg = ValidationError

\* C24, amended: the guard is weaker than validate_config.  For every
\* descriptor of the builder's mode, a builder that raises implies that
\* validate_config raises, with the same message unless validate_config
\* stops earlier at the host ("Host cannot be empty") or the SENTINEL
\* descriptor lacks both fields (the builder tests sentinel_hosts first,
\* validate_config service_name first); a descriptor the builder accepts is
\* rejected by validate_config exactly when its host is empty or blank, or
\* ssl is true and ssl_cert_reqs is unset.
C24_GuardIsWeakerThanValidation ==
    GuardedOwnMode =>
        /\ ~ret.ok =>
              \/ ret.msg = ValidationError
              \/ ValidationError = "Host cannot be empty"
              \/ /\ ret.msg = "Sentinel hosts are required for Sentinel mode"
                 /\ ValidationError = "Service name is required for Sentinel mode"
                 /\ ~Truthy(args.config.service_name)
                 /\ args.config.sentinel_hosts \in {NONE_LIST, <<>>}
        /\ ret.ok =>
              /\ ValidationError \in
                    {"", "Host cannot be empty",
                     "SSL certificate requirements must be specified when SSL is enabled"}
              /\ ValidationError = "Host cannot be empty"
                    <=> Blank(args.config.host)
              /\ ValidationError = "SSL certificate requirements must be specified when SSL is enabled"
                    <=> (~Blank(args.config.host) /\ args.config.ssl
                         /\ args.config.ssl_cert_reqs = NONE)

\* the sentinel builder has refused a SENTINEL descriptor that lacks both
\* fields for its hosts, where validate_config refuses it for its service
\* name
C24_Witness ==
    /\ GuardedOwnMode
    /\ args.builder = SENTINEL
    /\ ~Blank(args.config.host)
    /\ ret = Raise("ValueError", "Sentinel hosts are required for Sentinel mode")
    /\ ValidationError = "Service name is required for Sentinel mode"

\* a builder has accepted a descriptor that validate_config rejects
C24_AcceptedButInvalid ==
    /\ GuardedOwnMode
    /\ ret.ok
    /\ ValidationError # ""

----------------------------------------------------------------------------
(* C25: the keyword arguments of the standalone builder                    *)

\* create_connection of a standalone builder has just called the external
\* constructor
StandaloneBuilt ==
    /\ op = "builder.create_connection"
    /\ args.builder = STANDALONE
    /\ Len(calls) = 1

\* C25 as stated: for every STANDALONE descriptor that satisfies the
\* construction invariants, create_connection passes the external
\* constructor host, port, password, db, max_connections, socket_timeout
\* and socket_connect_timeout each equal to the descriptor's value, plus
\* decode_responses = true and ssl equal to the descriptor's ssl;
\* ssl_cert_reqs and ssl_ca_certs are passed exactly when ssl is true and
\* the field is set.
C25_StandaloneParams ==
    StandaloneBuilt =>
        \E kw \in {calls[1].kw}, cfg \in {args.self.config} :
            /\ \A f \in {"host", "port", "password", "db", "max_connections",
                         "socket_timeout", "socket_connect_timeout"} :
                  f \in DOMAIN kw /\ kw[f] = cfg[f]
            /\ kw.decode_responses = TRUE
            /\ kw.ssl = cfg.ssl
            /\ \A f \in {"ssl_cert_reqs", "ssl_ca_certs"} :
                  /\ f \in DOMAIN kw <=> (cfg.ssl /\ cfg[f] # NONE)
                  /\ f \in DOMAIN kw => kw[f] = cfg[f]

\* the statement fails only for a timeout of 0 or an ssl field set to ""
C25_FailsOnlyForFalsyValues ==
    StandaloneBuilt /\ ~C25_StandaloneParams =>
        \/ args.self.config.socket_timeout = 0
        \/ args.self.config.socket_connect_timeout = 0
        \/ args.self.config.ssl_cert_reqs = <<>>
        \/ args.self.config.ssl_ca_certs = <<>>

\* the descriptor of the unit test (a host, port 6380, a password) has been
\* built, and every field of it has reached the constructor
C25_Witness ==
    /\ StandaloneBuilt
    /\ args.self.config.port = 6380
    /\ args.self.config.password = <<"s","e","c","r","e","t">>
    /\ calls[1].kw.port = 6380
    /\ calls[1].kw.password = <<"s","e","c","r","e","t">>
    /\ calls[1].kw.socket_timeout = 5
    /\ ret.ok

----------------------------------------------------------------------------
(* C26: the host list handed to the external constructor                   *)

\* the descriptor get_redis_client has parsed from its URI
Dispatched == parse_redis_uri(uri).val

\* get_redis_client has parsed a sentinel or cluster URI and gone on to
\* the builder of its mode
ListBuilt ==
    /\ op = "get_redis_client"
    /\ written.scheme \in {<<"r","e","d","i","s","+","s","e","n","t","i","n","e","l">>,
                           <<"r","e","d","i","s","+","c","l","u","s","t","e","r">>}
    /\ parse_redis_uri(uri).ok

\* the text of an entry after its first colon is an integer
IntegerPortOrNone(entry) ==
    find(entry, ":") = 0
        \/ int(SubSeq(entry, find(entry, ":") + 1, Len(entry))).ok

\* the pair an entry stands for: what is before its first colon and the
\* integer after it, or the whole entry and the default port of the mode
PairOf(entry, default_port) ==
    IF find(entry, ":") = 0 THEN [host |-> entry, port |-> default_port]
    ELSE [host |-> SubSeq(entry, 1, find(entry, ":") - 1),
          port |-> int(SubSeq(entry, find(entry, ":") + 1, Len(entry))).val]

----------------------------------------------------------------------------
(* C27: every accepted URI reaches the external constructor                *)

\* get_redis_client has been called on a URI that parse_redis_uri accepts
DispatchedAccepted ==
    /\ op = "get_redis_client"
    /\ written.scheme # <<>>
    /\ parse_redis_uri(uri).ok

\* C27 as stated: every URI that parse_redis_uri accepts is usable by
\* get_redis_client: neither the guard of the builder nor its own parsing
\* of the host list raises, so the external constructor is reached, and
\* called exactly once.
C27_AcceptedUriReachesConstructor ==
    DispatchedAccepted => Cardinality(ConstructorCalls) = 1

\* the constructor is missed only when an entry after the first has a
\* port that is no integer: the entries parse_redis_uri does not test
C27_FailsOnlyThroughLaterEntries ==
    DispatchedAccepted /\ Cardinality(ConstructorCalls) # 1 =>
        /\ calls = <<>>
        /\ ret.exc = "ValueError"
        /\ \E i \in 2..Len(HostListOf(Dispatched)) :
              ~IntegerPortOrNone(HostListOf(Dispatched)[i])

\* a sentinel URI with two entries has been accepted and the Sentinel
\* constructor has been called once
C27_Witness ==
    /\ DispatchedAccepted
    /\ Dispatched.mode = SENTINEL
    /\ Len(Dispatched.sentinel_hosts) = 2
    /\ Cardinality(ConstructorCalls) = 1

----------------------------------------------------------------------------
(* C28: merging a valid override                                           *)

\* merge_configs has just been called with an override that
\* validate_config accepts
MergedValidOverride ==
    /\ op = "merge_configs"
    /\ validate_config(args.override) = ""

\* C28: for every base descriptor and every override descriptor that
\* validate_config accepts, merge_configs(base, override) succeeds and its
\* result is accepted by validate_config, whatever base contains.
C28_MergeKeepsOverrideValid ==
    MergedValidOverride => ret.ok /\ validate_config(ret.val) = ""

\* a valid override with no password has been merged on a base that
\* validate_config rejects: the result has passed, with a field of base
C28_Witness ==
    /\ MergedValidOverride
    /\ validate_config(args.base) # ""
    /\ args.override.ssl_ca_certs = NONE
    /\ args.base.ssl_ca_certs # NONE
    /\ ret.ok
    /\ ret.val.ssl_ca_certs = args.base.ssl_ca_certs
    /\ validate_config(ret.val) = ""

----------------------------------------------------------------------------
(* C29: what the sentinel builder keeps from the external library          *)

\* create_connection of a sentinel builder has just run
SentinelBuilt ==
    /\ op = "builder.create_connection"
    /\ args.builder = SENTINEL

\* the values of sentinel_password and db a second descriptor may differ in
OtherSentinelPasswords == {NONE, <<"p">>, <<"o","t","h","e","r">>}

OtherDbs == {0, 3}

\* C29: for two SENTINEL descriptors that differ only in sentinel_password
\* or db, create_connection makes identical calls to the external library
\* (same Sentinel constructor arguments, same master_for argument), and
\* neither field is among the arguments of the constructor.
C29_SentinelPasswordAndDbUnused ==
    SentinelBuilt =>
        /\ \A sp \in OtherSentinelPasswords, db \in OtherDbs :
              SentinelRedisClient_create_connection(
                  [config |-> [args.self.config EXCEPT
                                  !.sentinel_password = sp, !.db = db],
                   async_client |-> args.self.async_client],
                  args.ext).calls = calls
        /\ \A i \in 1..Len(calls) :
              "kw" \in DOMAIN calls[i] =>
                  DOMAIN calls[i].kw \cap {"db", "sentinel_password", "sentinel_kwargs"} = {}

\* a sentinel builder on a descriptor with a sentinel_password has called
\* the constructor and master_for
C29_Witness ==
    /\ SentinelBuilt
    /\ args.self.config.sentinel_password = <<"p">>
    /\ Len(calls) = 2
    /\ calls[2].fn = "master_for"

----------------------------------------------------------------------------
(* C30: one '@' ends the userinfo for the password and for the host list   *)

\* C30 as stated: for every sentinel or cluster URI that parse_redis_uri
\* accepts, the password and the host list are separated at the same '@':
\* no entry of sentinel_hosts or cluster_nodes, and not the descriptor's
\* host, contains an '@' or any part of the userinfo, also when the
\* password itself contains '@'.
C30_SeparatedAtTheSameAt ==
    ParsedList =>
        /\ ~Contains(ret.val.host, "@")
        /\ \A i \in 1..Len(HostListOf(ret.val)) :
              ~Contains(HostListOf(ret.val)[i], "@")
        /\ HostListOf(ret.val) =
              [i \in 1..Len(NonBlankHosts) |-> strip(EntryText(NonBlankHosts[i]))]

\* the statement fails only for a URI whose password holds an '@'
C30_FailsOnlyForAtInPassword ==
    ParsedList /\ ~C30_SeparatedAtTheSameAt =>
        /\ written.userinfo # NoUserInfo
        /\ Contains(written.userinfo.password, "@")

\* a cluster URI with a user, a password without '@' and two entries has
\* been accepted: the entries are the written ones
C30_Witness ==
    /\ ParsedList
    /\ ret.val.mode = CLUSTER
    /\ written.userinfo = [user |-> <<"u">>, password |-> <<"p">>]
    /\ ret.val.password = <<"p">>
    /\ Len(ret.val.cluster_nodes) = 2
    /\ \A i \in 1..2 : ret.val.cluster_nodes[i] = EntryText(written.hosts[i])

====
